---------------------------- MODULE Spec2Model ----------------------------
(***************************************************************************)
(* A model of scn2cam (src/apps/scn2cam/scn2cam.cpp): the scoring          *)
(* functions, the viewpoint mask, the three camera generation strategies   *)
(* and the generate / post-process / write pipeline.                       *)
(*                                                                         *)
(* Conventions.                                                            *)
(*  - C ints are 32-bit two's-complement; Add32 / Mul32 wrap.  A signed    *)
(*    overflow is undefined behaviour: the build either wraps or traps.    *)
(*  - Lengths are integers in units of 0.025, so that 0.1 = 4.             *)
(*  - A score is a record [k, n, d]: k = "lin" is the rational n/d,        *)
(*    k = "log" is ln(n/d).  log() is monotone, so two "log" scores        *)
(*    compare as their arguments do.                                       *)
(*  - A node name is a sequence of tokens; NoName is the NULL pointer.     *)
(***************************************************************************)
EXTENDS Integers, Sequences, FiniteSets, TLC

---------------------------------------------------------------------------
(* 32-bit integer arithmetic *)

IntMax == 2147483647
IntMin == (-IntMax) - 1

\* x + y in two's complement, for x, y in IntMin..IntMax
Add32(x, y) ==
    IF x >= 0 /\ y >= 0
    THEN IF x > IntMax - y THEN ((x - IntMax - 1) + y) - IntMax - 1 ELSE x + y
    ELSE IF x < 0 /\ y < 0
    THEN IF x < IntMin - y THEN ((x + IntMax + 1) + y) + IntMax + 1 ELSE x + y
    ELSE x + y

\* a * b in two's complement, for a >= 0 (binary multiplication by doubling)
RECURSIVE Mul32(_, _)
Mul32(a, b) ==
    IF a = 0 THEN 0
    ELSE LET h == Mul32(a \div 2, b)
             dbl == Add32(h, h)
         IN  IF a % 2 = 1 THEN Add32(dbl, b) ELSE dbl

\* the exact product a * b of two non-negative ints does not fit an int
MulOverflows(a, b) == a > 0 /\ b > IntMax \div a

---------------------------------------------------------------------------
(* Scores (RNScalar values) *)

Lin(n, d) == [k |-> "lin", n |-> n, d |-> d]
Log(n, d) == [k |-> "log", n |-> n, d |-> d]
ZeroScore == Lin(0, 1)

\* floor(e^q) for the rationals q a "lin" score is compared with a "log" one
FloorExp(q) ==
    IF q.n = 0 THEN 1
    ELSE IF 2 * q.n = q.d THEN 1       \* e^(1/2) = 1.6487...
    ELSE IF q.n = q.d THEN 2           \* e^1     = 2.7182...
    ELSE 0                             \* q < 0 is never compared here
ExpIsExact(q) == q.n = 0

\* a = b, a < b as real numbers ("log" against "lin" only for an integer
\* argument of log, which is what the code produces)
ScoreEQ(a, b) ==
    IF a.k = b.k THEN a.n * b.d = b.n * a.d
    ELSE IF a.k = "log" THEN ExpIsExact(b) /\ a.n = FloorExp(b) * a.d
    ELSE ExpIsExact(a) /\ b.n = FloorExp(a) * b.d
ScoreLT(a, b) ==
    IF a.k = b.k THEN a.n * b.d < b.n * a.d
    ELSE IF a.k = "log"
    THEN IF ExpIsExact(b) THEN a.n < FloorExp(b) * a.d
                          ELSE a.n <= FloorExp(b) * a.d
    ELSE b.n > FloorExp(a) * b.d
ScoreGT(a, b) == ScoreLT(b, a)
ScoreGE(a, b) == ~ScoreLT(a, b)

---------------------------------------------------------------------------
(* The scene: an R3Scene built from a Planner5D project.  Node i of the    *)
(* function is scene->Node(i).                                             *)

NoName == <<"<NULL>">>
NoNode == -1

Node(name, parent, children) ==
    [name |-> name, parent |-> parent, children |-> children]

SceneNodes ==
    <<  Node(<<"Project#", "1">>, NoNode, <<1, 8, 13, 14>>),      \*  0
        Node(<<"Room#", "1">>, 0, <<2, 3, 4, 5, 6, 7>>),          \*  1
        Node(<<"Walls#", "1">>, 1, <<>>),                         \*  2
        Node(<<"Floors#", "1">>, 1, <<>>),                        \*  3
        Node(<<"Ceilings#", "1">>, 1, <<>>),                      \*  4
        Node(<<"chair">>, 1, <<>>),                               \*  5
        Node(<<"table">>, 1, <<>>),                               \*  6
        Node(<<"Object#", "Door">>, 1, <<>>),                     \*  7
        Node(<<"Room#", "2">>, 0, <<10, 9, 11, 12>>),             \*  8
        Node(<<"Walls#", "2">>, 8, <<>>),                         \*  9
        Node(<<"Floors#", "2">>, 8, <<>>),                        \* 10
        Node(<<"Ceilings#", "2">>, 8, <<>>),                      \* 11
        Node(<<"sofa">>, 8, <<>>),                                \* 12
        Node(NoName, 0, <<>>),                                    \* 13
        Node(<<"Room#", "3">>, 0, <<16, 15, 17>>),                \* 14
        Node(<<"Floors#", "3">>, 14, <<>>),                       \* 15
        Node(<<"Walls#", "3">>, 14, <<>>),                        \* 16
        Node(<<"Ceilings#", "3">>, 14, <<>>) >>                   \* 17

NNodes == Len(SceneNodes)
NodeIds == 0 .. NNodes - 1
SceneNode(i) == SceneNodes[i + 1]
Root == 0

Name(i) == SceneNode(i).name
Parent(i) == SceneNode(i).parent
NChildren(i) == Len(SceneNode(i).children)
Child(i, c) == SceneNode(i).children[c + 1]

\* !strncmp(name, tok, strlen(tok)): the name starts with the token
StartsWith(name, tok) == name # NoName /\ Len(name) > 0 /\ name[1] = tok
\* the token looked for at the start of the name only
Contains_AtStart(name, tok) == name # NoName /\ Len(name) > 0 /\ name[1] = tok
\* strstr(name, tok): the token occurs in the name
Contains(name, tok) == name # NoName /\ \E p \in 1 .. Len(name) : name[p] = tok

RECURSIVE InSubtree(_, _)
\* node n is root_node or one of its descendants
InSubtree(n, root_node) ==
    IF n = root_node THEN TRUE
    ELSE IF Parent(n) = NoNode THEN FALSE
    ELSE InSubtree(Parent(n), root_node)

\* IsObject for a node of the given name and number of children
IsObjectNode(name, nchildren) ==
    IF nchildren > 0 THEN FALSE
    ELSE IF name = NoName THEN TRUE
    ELSE IF StartsWith(name, "Walls#") THEN FALSE
    ELSE IF StartsWith(name, "Floors#") THEN FALSE
    ELSE IF StartsWith(name, "Ceilings#") THEN FALSE
    ELSE IF Contains(name, "Door") THEN FALSE
    ELSE IF Contains(name, "Window") THEN FALSE
    ELSE TRUE

IsObject(node) == IsObjectNode(Name(node), NChildren(node))

---------------------------------------------------------------------------
(* Program variables (configuration) and the views of a camera *)

\* min_visible_fraction = 0.01 = 1 / MinVisibleFractionDen (no option sets it)
MinVisibleFractionDen == 100

\* R2_GRID_UNKNOWN_VALUE
UnknownValue == -12345678

\* What a camera sees, as runs of pixels: HitLists[g] is the front-to-back
\* list of the nodes whose surfaces the rays of run g cross, and a view gives
\* the number of pixels of each run (the other pixels see nothing).
HitLists == << <<5>>, <<6>>, <<12>>, <<13>>, <<2, 12>> >>
NRuns == Len(HitLists)

RECURSIVE FitsIn(_, _)
\* the runs q of pixels fit an image of npixels pixels
FitsIn(q, npixels) ==
    IF q = <<>> THEN TRUE
    ELSE Head(q) <= npixels /\ FitsIn(Tail(q), npixels - Head(q))

---------------------------------------------------------------------------
(* Image capture: RenderImage and its two backends.  An image is a         *)
(* sequence of runs [m |-> number of pixels, value |-> grid value].        *)

RECURSIVE FirstHit(_, _, _)
\* nearest surface among those drawn / intersected below root_node;
\* only_node = NoNode draws every node (OpenGL draws only_node's elements only)
FirstHit(hits, root_node, only_node) ==
    IF hits = <<>> THEN NoNode
    ELSE IF InSubtree(Head(hits), root_node)
            /\ (only_node = NoNode \/ only_node = Head(hits))
         THEN Head(hits)
         ELSE FirstHit(Tail(hits), root_node, only_node)

\* glColor3ubv of node->SceneIndex() + 1: three bytes
NodeColor(node) ==
    LET node_index == node + 1
    IN  << (node_index \div 65536) % 256, (node_index \div 256) % 256,
           node_index % 256 >>

\* the number of colours three bytes tell apart
NColors == 256 * 256 * 256

\* the value CaptureScalar stores for one rgb pixel
CaptureScalar(color) == color[1] * 65536 + color[2] * 256 + color[3]

\* the value RenderImageWithOpenGL leaves in a pixel whose nearest drawn
\* surface belongs to node hit (NoNode: nothing was drawn there)
OpenGLValue(hit) ==
    LET \* glClearColor(0, 0, 0): the background is black
        color == IF hit = NoNode THEN <<0, 0, 0>> ELSE NodeColor(hit)
        captured == CaptureScalar(color)
        \* image.Substitute(0, R2_GRID_UNKNOWN_VALUE); image.Subtract(1.0)
    IN  IF captured = 0 THEN UnknownValue ELSE captured - 1

\* the value RenderImageWithRayCasting leaves in a pixel whose ray meets
\* node hit first (NoNode: the ray meets nothing)
RayCastingValue(hit, selected_node) ==
    IF hit # NoNode /\ (selected_node = NoNode \/ selected_node = hit)
    THEN hit ELSE UnknownValue

RenderImageWithOpenGL(view, root_node, selected_node) ==
    [g \in 1 .. NRuns |->
        LET hit == FirstHit(HitLists[g], root_node, selected_node)
        IN  [m |-> view[g], value |-> OpenGLValue(hit)]]

RenderImageWithRayCasting(view, root_node, selected_node) ==
    [g \in 1 .. NRuns |->
        LET hit == FirstHit(HitLists[g], root_node, NoNode)
        IN  [m |-> view[g], value |-> RayCastingValue(hit, selected_node)]]

\* c.glut, c.mesa select the backend
RenderImage(view, root_node, selected_node, c) ==
    IF c.glut \/ c.mesa THEN RenderImageWithOpenGL(view, root_node, selected_node)
    ELSE RenderImageWithRayCasting(view, root_node, selected_node)

---------------------------------------------------------------------------
(* SceneCoverageScore *)

RECURSIVE CountPixels(_, _)
\* the number of pixels of the image whose value selects node_index
CountPixels(image, node_index) ==
    IF image = <<>> THEN 0
    ELSE LET px == Head(image)
             rest == CountPixels(Tail(image), node_index)
         IN  IF px.value = UnknownValue THEN rest
             ELSE IF px.value < 0 \/ px.value >= NNodes THEN rest
             ELSE IF px.value = node_index THEN px.m + rest
             ELSE rest

NodePixelCounts(image) == [i \in NodeIds |-> CountPixels(image, i)]

\* the nodes both scoring methods count: objects of large enough size
CountedNodes(node_pixel_counts, min_pixel_count_per_object) ==
    { i \in NodeIds : IsObject(i)
                      /\ ~(node_pixel_counts[i] <= min_pixel_count_per_object) }

RECURSIVE SumCounts(_, _)
SumCounts(nodes, node_pixel_counts) ==
    IF nodes = {} THEN 0
    ELSE LET i == CHOOSE x \in nodes : TRUE
         IN  node_pixel_counts[i] + SumCounts(nodes \ {i}, node_pixel_counts)

\* the term method 1 adds for a node of count pixels: log(count / min), an
\* int / int division
LogTerm(count, min_pixel_count_per_object) ==
    Log(count \div min_pixel_count_per_object, 1)

RECURSIVE ProdQuotients(_, _, _)
\* the argument of the log of method 1: the sum of log(count / min), an
\* int / int division, is the log of the product of the quotients
ProdQuotients(nodes, node_pixel_counts, min_pixel_count_per_object) ==
    IF nodes = {} THEN 1
    ELSE LET i == CHOOSE x \in nodes : TRUE
         IN  LogTerm(node_pixel_counts[i], min_pixel_count_per_object).n
             * ProdQuotients(nodes \ {i}, node_pixel_counts,
                             min_pixel_count_per_object)

\* how the build resolves a signed overflow
UBOutcomes == {"wrap", "trap"}

\* The result of SceneCoverageScore(camera, scene, parent_node) for a camera
\* with the given view: [trap, score] and, for the properties, the pixel
\* counts it scored (counts) and the early return it took (early).
SceneCoverageScore(view, parent_node, c, ub) ==
    LET max_pixel_count == Mul32(c.width, c.height)
        min_pixel_count_per_object == max_pixel_count \div MinVisibleFractionDen
        image == RenderImage(view, Root, NoNode, c)
        node_pixel_counts == NodePixelCounts(image)
        counted == CountedNodes(node_pixel_counts, min_pixel_count_per_object)
        node_count == Cardinality(counted)
        pixel_count == SumCounts(counted, node_pixel_counts)
        none == [i \in NodeIds |-> 0]
        Ret(score, counts, early) ==
            [trap |-> FALSE, score |-> score, counts |-> counts, early |-> early,
             counted |-> IF early THEN {} ELSE counted]
    IN  IF max_pixel_count = 0 THEN Ret(ZeroScore, none, TRUE)
        ELSE IF min_pixel_count_per_object = 0 THEN Ret(ZeroScore, none, TRUE)
        ELSE IF c.scene_scoring_method = 0
        THEN IF node_count > c.min_visible_objects
             THEN IF MulOverflows(node_count, pixel_count) /\ ub = "trap"
                  THEN [trap |-> TRUE, score |-> ZeroScore,
                        counts |-> node_pixel_counts, early |-> FALSE,
                        counted |-> counted]
                  ELSE Ret(Lin(Mul32(node_count, pixel_count), max_pixel_count),
                           node_pixel_counts, FALSE)
             ELSE Ret(ZeroScore, node_pixel_counts, FALSE)
        ELSE IF c.scene_scoring_method = 1
        THEN IF node_count > c.min_visible_objects
             THEN Ret(Log(ProdQuotients(counted, node_pixel_counts,
                                        min_pixel_count_per_object), 1),
                      node_pixel_counts, FALSE)
             ELSE Ret(ZeroScore, node_pixel_counts, FALSE)
        ELSE Ret(ZeroScore, node_pixel_counts, FALSE)

---------------------------------------------------------------------------
(* ObjectCoverageScore *)

max_npoints == 1024
target_npoints == 512

\* The surface of a node: runs of cnt triangles of equal area in its
\* triangle arrays, and the area of its shapes that are no triangle arrays.
Surface(tris, other) == [tris |-> tris, other |-> other]
NoSurface == Surface(<<>>, 0)
Geometry(node) ==
    IF node = 5 THEN Surface(<< [cnt |-> 2, area |-> 1] >>, 0)
    ELSE IF node = 6 THEN Surface(<< [cnt |-> 1, area |-> 1], [cnt |-> 1, area |-> 2] >>, 0)
    ELSE IF node = 12 THEN Surface(<< [cnt |-> 2, area |-> 0] >>, 0)
    ELSE IF node = 13 THEN Surface(<< [cnt |-> 1500, area |-> 1] >>, 1)
    ELSE IF node \in {2, 9, 16} THEN Surface(<< [cnt |-> 2, area |-> 1] >>, 0)
    ELSE NoSurface

RECURSIVE TotalArea(_)
TotalArea(tris) ==
    IF tris = <<>> THEN 0
    ELSE Head(tris).cnt * Head(tris).area + TotalArea(Tail(tris))

\* the static variables of ObjectCoverageScore: last_node, npoints, and (for
\* the properties) owner, the node the points 0 .. npoints-1 lie on, and
\* filled, the number of slots of points[] ever written
NoCache == [last_node |-> NoNode, npoints |-> 0, owner |-> NoNode, filled |-> 0]

\* the ways the random draws RNRandomScalar() < real_nsamples - nsamples can
\* come out for the triangles of one run: how many of them get one more sample
RoundUps(run, total_area) ==
    IF (target_npoints * run.area) % total_area = 0 THEN {0}
    ELSE {0, run.cnt \div 2, run.cnt}

RECURSIVE GeneratePoints(_, _, _, _)
\* npoints after the sampling loops over the runs tris, from npoints
GeneratePoints(tris, ups, total_area, npoints) ==
    IF tris = <<>> THEN npoints
    ELSE LET run == Head(tris)
             nsamples == (target_npoints * run.area) \div total_area
             wanted == run.cnt * nsamples + Head(ups)
             room == max_npoints - npoints      \* if (npoints >= max_npoints) break
             taken == IF wanted > room THEN room ELSE wanted
         IN  GeneratePoints(Tail(tris), Tail(ups), total_area, npoints + taken)

\* the sample points a ray finds visible: point i is visible iff
\* i % vis.mod = 0 and i < vis.lim
VisPatterns == { [mod |-> 1, lim |-> 0], [mod |-> 1, lim |-> max_npoints],
                 [mod |-> 2, lim |-> max_npoints], [mod |-> 1, lim |-> 3] }
IsVisible(vis, i) == i % vis.mod = 0 /\ i < vis.lim

\* the points the counting loop visits
ScoredPoints(npoints) == 0 .. npoints - 1

\* the points regenerated only while none has been cached yet
CacheMiss_OnlyWhenEmpty(cache, node) == cache.last_node = NoNode

\* if (last_node != node)
CacheMiss(cache, node) == cache.last_node # node

\* ObjectCoverageScore with npoints reset only after the check of the total
\* area: a target without area leaves the points of the node before it
ObjectCoverageScore_ResetAfterAreaCheck(cache, node, ups, vis) ==
    LET surface == Geometry(node)
        total_area == TotalArea(surface.tris) + surface.other
        miss == CacheMiss(cache, node)
        npoints == IF ~miss \/ total_area = 0 THEN cache.npoints
                   ELSE GeneratePoints(surface.tris, ups, total_area, 0)
        after == IF ~miss THEN cache
                 ELSE IF total_area = 0 THEN [cache EXCEPT !.last_node = node]
                 ELSE [last_node |-> node, npoints |-> npoints,
                       owner |-> IF npoints > 0 THEN node ELSE NoNode,
                       filled |-> IF npoints > cache.filled THEN npoints
                                  ELSE cache.filled]
        nvisible == Cardinality({ i \in ScoredPoints(npoints) : IsVisible(vis, i) })
    IN  IF miss /\ total_area = 0
        THEN [cache |-> after, score |-> ZeroScore, regenerated |-> FALSE]
        ELSE IF npoints = 0
        THEN [cache |-> after, score |-> ZeroScore, regenerated |-> miss]
        ELSE [cache |-> after, score |-> Lin(nvisible, npoints), regenerated |-> miss]

\* ObjectCoverageScore(camera, scene, node) from the static state cache:
\* [cache, score, regenerated]
ObjectCoverageScore(cache, node, ups, vis) ==
    LET surface == Geometry(node)
        total_area == TotalArea(surface.tris) + surface.other
        miss == CacheMiss(cache, node)
        npoints == IF ~miss THEN cache.npoints
                   ELSE IF total_area = 0 THEN 0
                   ELSE GeneratePoints(surface.tris, ups, total_area, 0)
        after == IF ~miss THEN cache
                 ELSE [last_node |-> node, npoints |-> npoints,
                       owner |-> IF npoints > 0 THEN node ELSE NoNode,
                       filled |-> IF npoints > cache.filled THEN npoints
                                  ELSE cache.filled]
        nvisible == Cardinality({ i \in ScoredPoints(npoints) : IsVisible(vis, i) })
    IN  IF miss /\ total_area = 0
        THEN [cache |-> after, score |-> ZeroScore, regenerated |-> FALSE]
        ELSE IF npoints = 0
        THEN [cache |-> after, score |-> ZeroScore, regenerated |-> miss]
        ELSE [cache |-> after, score |-> Lin(nvisible, npoints), regenerated |-> miss]

\* the draws possible when node's points are generated
RECURSIVE UpChoices(_, _)
UpChoices(tris, total_area) ==
    IF tris = <<>> THEN { <<>> }
    ELSE { <<u>> \o rest : u \in RoundUps(Head(tris), total_area),
                           rest \in UpChoices(Tail(tris), total_area) }
Draws(node) ==
    LET surface == Geometry(node)
        total_area == TotalArea(surface.tris) + surface.other
    IN  IF total_area = 0 THEN { <<>> } ELSE UpChoices(surface.tris, total_area)

\* the draws of one call: none is made while the cached points are reused
DrawsOfCall(cache, node) ==
    IF cache.last_node = node THEN { <<>> } ELSE Draws(node)

---------------------------------------------------------------------------
(* ComputeViewpointMask.  Lengths are in units of 0.025, so 0.1 = 4.       *)
(* A grid is a function from its cells <<ix, iy>> to values.               *)

\* RNScalar grid_sampling_factor = 2
grid_sampling_factor == 2
\* grid_sample_spacing is 0.1 when it is 0 or above 0.1
DefaultSpacing == 4

\* A box is [x0, x1, y0, y1, z0, z1] relative to the room's bounding box
\* minimum; the triangles of a node cover the xy-rectangle of its box.
Box(x0, x1, y0, y1, z0, z1) ==
    [x0 |-> x0, x1 |-> x1, y0 |-> y0, y1 |-> y1, z0 |-> z0, z1 |-> z1]

GridCells(xres, yres) == (0 .. xres - 1) \X (0 .. yres - 1)

\* R3Intersects(world_bbox, bbox) on the z range the caller restricts
IntersectsZ(zlo, zhi, b) == b.z0 <= zhi /\ b.z1 >= zlo

\* R2Contains(grid.WorldBox(), p) for the vertices of the triangles of b
VerticesInGrid(b, xlen, ylen) ==
    b.x0 >= 0 /\ b.x1 <= xlen /\ b.y0 >= 0 /\ b.y1 <= ylen

\* grid.RasterizeWorldTriangle: the cells whose centre the triangles cover
Covers(b, cell, xres, yres, xlen, ylen) ==
    /\ 2 * b.x0 * xres <= (2 * cell[1] + 1) * xlen
    /\ (2 * cell[1] + 1) * xlen < 2 * b.x1 * xres
    /\ 2 * b.y0 * yres <= (2 * cell[2] + 1) * ylen
    /\ (2 * cell[2] + 1) * ylen < 2 * b.y1 * yres

\* RasterizeIntoXYGrid of the nodes whose triangles are boxes: the number of
\* them rasterized onto each cell; a triangle off the z range or with a
\* vertex outside the grid's box is skipped
RasterizeIntoXYGrid(boxes, zlo, zhi, xres, yres, xlen, ylen) ==
    [cell \in GridCells(xres, yres) |->
        Cardinality({ b \in 1 .. Len(boxes) :
            /\ IntersectsZ(zlo, zhi, boxes[b])
            /\ VerticesInGrid(boxes[b], xlen, ylen)
            /\ Covers(boxes[b], cell, xres, yres, xlen, ylen) })]

\* R2Grid::Threshold(t, low, high) with t = 0.5 on integer values
Threshold(grid, low, high) ==
    [cell \in DOMAIN grid |-> IF grid[cell] = 0 THEN low ELSE high]

\* R2Grid::Erode(distance): a cell stays set iff no cell of the grid within
\* that distance (in cells) of it is zero
Erode(grid, distance) ==
    [cell \in DOMAIN grid |->
        IF \E other \in DOMAIN grid :
              /\ grid[other] = 0
              /\ (other[1] - cell[1]) * (other[1] - cell[1])
                 + (other[2] - cell[2]) * (other[2] - cell[2])
                   <= distance * distance
        THEN 0 ELSE 1]

\* R2Grid::Mask(mask): the cells where mask is zero are cleared
MaskGrid(grid, mask) ==
    [cell \in DOMAIN grid |-> IF mask[cell] = 0 THEN 0 ELSE grid[cell]]

\* the room accepted on its own name alone
HasRoomTriple_NameOnly(room_node) ==
    /\ room_node # NoNode
    /\ Name(room_node) # NoName
    /\ StartsWith(Name(room_node), "Room#")

\* the structural checks on the room, its wall, floor and ceiling nodes
HasRoomTriple(room_node) ==
    /\ room_node # NoNode
    /\ Name(room_node) # NoName
    /\ StartsWith(Name(room_node), "Room#")
    /\ ~(NChildren(room_node) < 3)
    /\ Name(Child(room_node, 0)) # NoName
    /\ StartsWith(Name(Child(room_node, 0)), "Walls#")
    /\ Name(Child(room_node, 1)) # NoName
    /\ StartsWith(Name(Child(room_node, 1)), "Floors#")
    /\ Name(Child(room_node, 2)) # NoName
    /\ StartsWith(Name(Child(room_node, 2)), "Ceilings#")

GridSampleSpacing(min_distance_from_obstacle) ==
    LET grid_sample_spacing == min_distance_from_obstacle \div grid_sampling_factor
    IN  IF grid_sample_spacing = 0 THEN DefaultSpacing
        ELSE IF grid_sample_spacing > DefaultSpacing THEN DefaultSpacing
        ELSE grid_sample_spacing

\* the resolution of the grid along x and along y
GridXRes(xlen, ylen, spacing) == xlen \div spacing
GridYRes(xlen, ylen, spacing) == xlen \div spacing

\* the distance the two masks are eroded by, in cells
ErodeDistance(min_distance_from_obstacle) == grid_sampling_factor

NoGrid == <<>>

\* the height of the rooms, floor to ceiling: 2.5, and 1.575 for a low one
RoomHeight == 100
LowRoomHeight == 63

\* the floor mask alone, the obstacle mask left out
CombineMasks_FloorOnly(floor_mask, object_mask) == floor_mask

\* mask = floor_mask; mask.Mask(object_mask)
CombineMasks(floor_mask, object_mask) == MaskGrid(floor_mask, object_mask)

\* ComputeViewpointMask(room_node, mask) for a room of the given geometry:
\* geo = [xlen, ylen, floor, ceiling, inroom, orphans], the extent of the
\* room's bounding box, the boxes of its floor and ceiling nodes, of its other
\* children and of the childless children of its parent
ComputeViewpointMask(room_node, geo, min_distance_from_obstacle) ==
    LET spacing == GridSampleSpacing(min_distance_from_obstacle)
        xres == GridXRes(geo.xlen, geo.ylen, spacing)
        yres == GridYRes(geo.xlen, geo.ylen, spacing)
        Raster(boxes, zlo, zhi) ==
            RasterizeIntoXYGrid(boxes, zlo, zhi, xres, yres, geo.xlen, geo.ylen)
        floor_mask ==
            Erode(Threshold(Raster(<<geo.floor>>, geo.floor.z0, geo.floor.z1), 0, 1),
                  ErodeDistance(min_distance_from_obstacle))
        \* object_bbox: above the floor's top, below the ceiling's bottom
        zlo == geo.floor.z1 + 1
        zhi == geo.ceiling.z0 - 1
        object_mask ==
            Erode(Threshold(Raster(geo.inroom \o geo.orphans, zlo, zhi), 1, 0),
                  ErodeDistance(min_distance_from_obstacle))
        Fail == [ok |-> FALSE, mask |-> NoGrid, floor_mask |-> NoGrid,
                 object_mask |-> NoGrid, floor |-> NoGrid, obstacles |-> NoGrid,
                 xres |-> 0, yres |-> 0]
    IN  IF ~HasRoomTriple(room_node) THEN Fail
        ELSE IF xres < 3 \/ yres < 3 THEN Fail
        ELSE [ok |-> TRUE,
              mask |-> CombineMasks(floor_mask, object_mask),
              floor_mask |-> floor_mask, object_mask |-> object_mask,
              floor |-> Raster(<<geo.floor>>, geo.floor.z0, geo.floor.z1),
              obstacles |-> Raster(geo.inroom \o geo.orphans, zlo, zhi),
              xres |-> xres, yres |-> yres]

---------------------------------------------------------------------------
(* Camera creation: the pieces the three strategies share.                 *)

\* a Camera: the R3Camera value and the name; kind, node, j tell which loop
\* iteration inserted it (they are not fields of the struct)
Camera(value, name, kind, node, j) ==
    [value |-> value, name |-> name, kind |-> kind, node |-> node, j |-> j]

\* R3Camera best_camera: the value of a default-constructed camera
DefaultValue == ZeroScore

\* int nangles = (int) (RN_TWO_PI / angle_sampling + 0.5), for
\* angle_sampling = 2 pi a.p / a.q
NAngles(a) == (2 * a.q + a.p) \div (2 * a.p)

\* the best camera kept with no regard to min_score
RememberBest_NoMinScore(best, value, min_score) ==
    IF ScoreGT(value, best) THEN value ELSE best

\* the best camera replaced by a camera of the same value too
Replaces_OnTie(best, value, min_score) ==
    /\ ~ScoreEQ(value, ZeroScore)
    /\ ~ScoreLT(value, min_score)
    /\ ScoreGE(value, best)

\* if (camera.Value() == 0) continue;
\* if (camera.Value() < min_score) continue;
\* if (camera.Value() > best_camera.Value()): the camera becomes the best
Replaces(best, value, min_score) ==
    /\ ~ScoreEQ(value, ZeroScore)
    /\ ~ScoreLT(value, min_score)
    /\ ScoreGT(value, best)

\* "Remember best camera": best_camera = camera, or best_camera as it was
RememberBest(best, value, min_score) ==
    IF Replaces(best, value, min_score) THEN value ELSE best

\* the best camera put in front of the cameras of the list
InsertBest_AtHead(list, best, name, kind, node, j) ==
    IF ScoreGT(best, ZeroScore) THEN <<Camera(best, name, kind, node, j)>> \o list
    ELSE list

\* if (best_camera.Value() > 0) cameras.Insert(new Camera(best_camera, name))
InsertBest(list, best, name, kind, node, j) ==
    IF ScoreGT(best, ZeroScore) THEN Append(list, Camera(best, name, kind, node, j))
    ELSE list

\* the decimal digits sprintf writes for %d
Digits == <<"0", "1", "2", "3", "4", "5", "6", "7", "8", "9">>
RECURSIVE Decimal(_)
Decimal(n) ==
    IF n < 10 THEN << Digits[n + 1] >>
    ELSE Decimal(n \div 10) \o << Digits[(n % 10) + 1] >>

\* the room's name with no bucket index
RoomCameraName_NoBucket(room_node, j) == Name(room_node) \o <<"_">>
\* every node of the scene taken up
IsObjectCandidate_AnyNode(node) == TRUE

\* new Camera(best_camera, node->Name())
ObjectCameraName(node) == Name(node)
\* sprintf(name, "%s_%d\n", room_node->Name(), k)
WallCameraName(room_node, k) == Name(room_node) \o <<"_">> \o Decimal(k) \o <<"\n">>
\* sprintf(name, "%s_%d", room_node->Name(), j)
RoomCameraName(room_node, j) == Name(room_node) \o <<"_">> \o Decimal(j)

\* the node loop of CreateObjectCameras takes up node i
IsObjectCandidate(node) == IsObject(node)
\* the node loop of CreateRoomCameras takes up node i
IsRoomCandidate(node) == Name(node) # NoName /\ StartsWith(Name(node), "Room#")

\* The Planner5D project behind the scene: its rooms in floor order, each
\* with its scene node and, per wall, the number of (position, direction)
\* pairs of the wall that lie inside the room's box.
ProjectRooms ==
    << [data |-> 1, walls |-> <<2, 0>>],
       [data |-> NoNode, walls |-> <<1>>],
       [data |-> 13, walls |-> <<1>>],
       [data |-> 14, walls |-> <<1>>] >>

\* the checks of CreateWallCameras on a room of the project
IsWallRoom(room) ==
    /\ room.data # NoNode
    /\ ~(NChildren(room.data) < 3)
    /\ Name(Child(room.data, 2)) # NoName
    /\ StartsWith(Name(Child(room.data, 2)), "Ceilings#")

\* the geometry of the rooms of the scene
RoomGeometry(room_node) ==
    IF room_node = 1
    THEN [xlen |-> 20, ylen |-> 20,
          floor |-> Box(0, 20, 0, 20, 0, 0),
          ceiling |-> Box(0, 20, 0, 20, RoomHeight, RoomHeight),
          inroom |-> << Box(8, 12, 8, 12, 0, 20) >>,
          orphans |-> <<>>]
    ELSE [xlen |-> 8, ylen |-> 20,
          floor |-> Box(0, 8, 0, 20, 0, 0),
          ceiling |-> Box(0, 8, 0, 20, LowRoomHeight, LowRoomHeight),
          inroom |-> <<>>,
          orphans |-> <<>>]

\* eye_height = 1.55 and the offsets 2.0*(RNRandomScalar()-0.5) * eye_height_radius
\* of a run, eye_height_radius = 0.05
EyeHeight == 62
EyeOffsets == {0, 2}
\* z > room_bbox.ZMax()
EyeAboveRoom(room_node, offset) ==
    RoomGeometry(room_node).floor.z0 + EyeHeight + offset
        > RoomGeometry(room_node).ceiling.z1

\* cameras.Sort(R3CompareCameras): by value, in the direction dir, cameras of
\* equal value in the order ties
RECURSIVE InsertSorted(_, _, _, _)
InsertSorted(sorted, c, dir, ties) ==
    IF sorted = <<>> THEN <<c>>
    ELSE LET h == Head(sorted)
             first == \/ dir = "ascending" /\ ScoreLT(c.value, h.value)
                      \/ dir = "descending" /\ ScoreGT(c.value, h.value)
                      \/ ScoreEQ(c.value, h.value) /\ ties = "reverse"
         IN  IF first THEN <<c>> \o sorted
             ELSE <<h>> \o InsertSorted(Tail(sorted), c, dir, ties)
RECURSIVE SortedCameras(_, _, _)
SortedCameras(list, dir, ties) ==
    IF list = <<>> THEN <<>>
    ELSE InsertSorted(SortedCameras(SubSeq(list, 1, Len(list) - 1), dir, ties),
                      list[Len(list)], dir, ties)

\* the positions the position loops of CreateRoomCameras sample in a room:
\* cells of the viewpoint mask (a position off the grid reads as 0)
OffGrid == <<-1, -1>>
RoomPositions == << {<<0, 0>>, <<4, 4>>}, {<<2, 2>>, OffGrid} >>

\* viewpoint_mask.WorldValue(position)
WorldValue(grid, position) ==
    IF position \in DOMAIN grid THEN grid[position] ELSE 0

\* a position off the grid taken as free
Admissible_OffGrid(grid, position) ==
    position \notin DOMAIN grid \/ 2 * grid[position] >= 1

\* if (viewpoint_mask_value < 0.5) continue;
Admissible(grid, position) == 2 * WorldValue(grid, position) >= 1

---------------------------------------------------------------------------
(* State *)

VARIABLES
    pc,     \* where the program (or the function called on its own) is
    cfg,    \* the program variables set by ParseArgs
    sc,     \* SceneCoverageScore: the last call [view, parent_node, out]
    cache,  \* the static variables of ObjectCoverageScore
    oc,     \* ObjectCoverageScore: the last call [node, before, out]
    ncalls, \* the number of calls of ObjectCoverageScore made so far
    mk,     \* ComputeViewpointMask: the last call [room_node, geo, clearance, out]
    cameras, \* the global array of cameras
    loop,   \* the locals of the Create...Cameras function that is running
    last,   \* the last loop iteration that reached "Insert best camera"
    file,   \* what WriteCameras wrote, and how the trajectory step went
    px,     \* one pixel of RenderImage: [hit, gl, rc]
    tr,     \* InterpolateCameraTrajectory on its own: the call and its result
    sel,    \* the candidate loop of one unit on its own
    ray,    \* one pass of the counting loop of ObjectCoverageScore
    vp,     \* the viewpoint of one candidate of CreateObjectCameras
    ob,     \* IsObject on a node of any name: [name, nchildren, is_object]
    pr,     \* the process of main: [mode, interpolate, pending, ncameras, runs, writes, status]
    lp      \* the floating-point loops of a run: [lo, hi, position_sampling, end, trajectory_step, y, x, u, passes]

vars == <<pc, cfg, sc, cache, oc, ncalls, mk, cameras, loop, last, file, px, tr,
         sel, ray, vp, ob, pr, lp>>

\* the variables of the camera pipeline, which the function checks leave alone
pipe == <<cameras, loop, last, file>>

NoCall == [view |-> <<>>, parent_node |-> NoNode,
           out |-> [trap |-> FALSE, score |-> ZeroScore, counts |-> <<>>,
                    early |-> FALSE, counted |-> {}]]
NoObjectCall == [node |-> NoNode, before |-> NoCache,
                 out |-> [cache |-> NoCache, score |-> ZeroScore,
                          regenerated |-> FALSE]]

NoMaskCall == [room_node |-> NoNode, geo |-> <<>>, clearance |-> 0, out |-> <<>>]

\* i, j, k: the loop indices; n: the candidates of the unit taken so far;
\* best: best_camera.Value(); seen: the scores of the unit's candidates;
\* mask: viewpoint_mask
\* position: the last position tried; scored: whether a camera there was
\* scored; viewpoint: the position of best_camera
NoLoop == [i |-> 0, j |-> 0, k |-> 0, n |-> 0, best |-> DefaultValue,
           seen |-> {}, mask |-> NoGrid, position |-> OffGrid,
           scored |-> FALSE, viewpoint |-> OffGrid]
NoUnit == [kind |-> "none", node |-> NoNode, j |-> 0, seen |-> {},
           before |-> 0, after |-> 0]
NoFile == [written |-> FALSE, cameras |-> <<>>, interpolated |-> FALSE,
           nkeypoints |-> 0, post |-> <<>>]
IdlePipe == cameras = <<>> /\ loop = NoLoop /\ last = NoUnit /\ file = NoFile

\* hit: the node a pixel shows; gl, rc: the value each backend gave it, once
\* the backend has run
NoPixel == [hit |-> NoNode, gl |-> <<>>, rc |-> <<>>]

\* seps: for each camera after the first, its distance plus interior angle
\* to the camera before it; towards: the towards vector of each camera;
\* step: trajectory_step; samples: the parameter u of each camera the
\* resampling loop inserted; inserted: the towards and up vectors of each
NoTrajectory == [seps |-> <<>>, towards |-> <<>>, step |-> 0, samples |-> <<>>,
                 inserted |-> <<>>]

\* scores: the value of each candidate camera of the unit, in the order the
\* loops make them; n: the candidates made so far; best: best_camera.Value();
\* pick: which candidate best_camera is (0: the default camera); list: the
\* cameras inserted
NoSelection == [scores |-> <<>>, min_score |-> ZeroScore, n |-> 0,
                best |-> DefaultValue, pick |-> 0, list |-> <<>>]

\* hits: the surfaces the ray from the camera through the point crosses,
\* nearest first, each [node, t]; node: the target; d: the distance from the
\* camera to the point; counted: whether the pass did nvisible++
NoRay == [hits |-> <<>>, node |-> NoNode, d |-> 0, counted |-> FALSE]

\* node: the object; centroid_z, floor_z: the heights of its centroid and of
\* its parent's floor; offset: the jitter of the eye height; max_distance: how
\* far back the viewpoint starts; hit: <<hit_t>> when the ray back from the
\* centroid meets a surface, <<>> otherwise; z: the height of the viewpoint of
\* the camera, num / den
NoView == [node |-> NoNode, centroid_z |-> 0, floor_z |-> 0, offset |-> 0,
           max_distance |-> 0, hit |-> <<>>, z |-> [num |-> 0, den |-> 1]]

\* name, nchildren: a node; is_object: what IsObject returned for it
NoNodeCheck == [name |-> NoName, nchildren |-> 0, is_object |-> FALSE]

\* the process: its backend mode, the display events GLUT holds for it, how
\* often the pipeline was entered and the output written, how it ended
NoProcess == [mode |-> "none", interpolate |-> FALSE, pending |-> 0,
              ncameras |-> 0, runs |-> 0, writes |-> 0, status |-> "none"]

\* the floating-point loops of a run: the room box, the samplings, the loop
\* variables y, x and u, and the parity of the passes made
NoLoops == [lo |-> 0, hi |-> 0, position_sampling |-> 0, end |-> 0,
            trajectory_step |-> 0, y |-> 0, x |-> 0, u |-> 0, passes |-> 0]

\* the variables of the functions checked one call at a time
solo == <<px, tr, sel, ray, vp, ob, pr, lp>>
IdleSolo == px = NoPixel /\ tr = NoTrajectory /\ sel = NoSelection /\ ray = NoRay
    /\ vp = NoView
    /\ ob = NoNodeCheck
    /\ pr = NoProcess
    /\ lp = NoLoops

---------------------------------------------------------------------------
(* Inputs of the scoring functions *)

\* -width, -height
ImageSizes == { <<0, 10>>, <<8, 8>>, <<20, 10>>, <<40000, 40000>> }

\* the largest runs of a view cover 1/2, 1/4, ... of the image
NShares == 2

RECURSIVE Pow2(_)
Pow2(e) == IF e = 0 THEN 1 ELSE 2 * Pow2(e - 1)

\* the sizes a run of pixels can have in an image of npixels pixels: none,
\* the threshold min_visible_fraction * npixels, one more, and large shares
RunSizes(npixels) ==
    {0, npixels \div MinVisibleFractionDen,
        (npixels \div MinVisibleFractionDen) + 1}
    \cup { npixels \div Pow2(e) : e \in 1 .. NShares }

Views(npixels) ==
    { v \in [1 .. NRuns -> RunSizes(npixels)] : FitsIn(v, npixels) }

Backends == { [glut |-> TRUE, mesa |-> FALSE], [glut |-> FALSE, mesa |-> FALSE] }

ScoreCfgs ==
    { [width |-> wh[1], height |-> wh[2],
       glut |-> b.glut, mesa |-> b.mesa,
       scene_scoring_method |-> meth,
       min_visible_objects |-> mvo] :
         wh \in ImageSizes, b \in Backends, meth \in {0, 1, 2}, mvo \in {1, 3} }

\* the calls of ObjectCoverageScore made in a row
MaxCalls == 3

ObjectNodes == { i \in NodeIds : IsObject(i) }

\* the program variables as the file initialises them (640 x 480, glut)
DefaultScoreCfg ==
    [width |-> 640, height |-> 480, glut |-> TRUE, mesa |-> FALSE,
     scene_scoring_method |-> 0, min_visible_objects |-> 3]

InitScore ==
    /\ \/ pc = "score" /\ cfg \in ScoreCfgs
       \/ pc = "object_score" /\ cfg = DefaultScoreCfg
    /\ sc = NoCall
    /\ cache = NoCache
    /\ oc = NoObjectCall
    /\ ncalls = 0
    /\ mk = NoMaskCall
    /\ IdlePipe
    /\ IdleSolo

\* one call SceneCoverageScore(camera, scene, room_node)
CallSceneCoverageScore ==
    /\ pc = "score"
    /\ \E view \in Views(cfg.width * cfg.height), parent_node \in {1, 8},
          ub \in UBOutcomes :
         sc' = [view |-> view, parent_node |-> parent_node,
                out |-> SceneCoverageScore(view, parent_node, cfg, ub)]
    /\ pc' = "scored"
    /\ UNCHANGED <<cfg, cache, oc, ncalls, mk, pipe, solo>>

\* one call ObjectCoverageScore(camera, scene, node)
CallObjectCoverageScore ==
    /\ pc \in {"object_score", "object_scored"}
    /\ ncalls < MaxCalls
    /\ \E node \in ObjectNodes, vis \in VisPatterns :
         \E ups \in DrawsOfCall(cache, node) :
            LET out == ObjectCoverageScore(cache, node, ups, vis)
            IN  /\ oc' = [node |-> node, before |-> cache, out |-> out]
                /\ cache' = out.cache
    /\ ncalls' = ncalls + 1
    /\ pc' = "object_scored"
    /\ UNCHANGED <<cfg, sc, mk, pipe, solo>>

NextScore == CallSceneCoverageScore \/ CallObjectCoverageScore

SpecScore == InitScore /\ [][NextScore]_vars

\* ObjectCoverageScore alone: the calls a run makes on its static variables
InitCache == InitScore /\ pc = "object_score"

SpecCache == InitCache /\ [][CallObjectCoverageScore]_vars

---------------------------------------------------------------------------
(* Inputs of ComputeViewpointMask *)

\* the floor lies 0 .. MaxInset wall thicknesses inside the room's box
MaxInset == 1
WallThickness == 4

\* extents <<xlen, ylen>> of the room's bounding box
RoomSizes == { <<8, 20>>, <<12, 12>>, <<20, 20>>, <<20, 8>> }

\* -min_distance_from_obstacle: 0, 0.1 (the default), 0.2, 0.5
Clearances == {0, 4, 8, 20}

Walls(xlen, ylen, t) ==
    IF t = 0 THEN <<>>
    ELSE << Box(0, t, 0, ylen, 0, RoomHeight), Box(xlen - t, xlen, 0, ylen, 0, RoomHeight),
            Box(0, xlen, 0, t, 0, RoomHeight), Box(0, xlen, ylen - t, ylen, 0, RoomHeight) >>

\* furniture of the room: none, a box in the middle, a rug flat on the floor
Furniture(xlen, ylen) ==
    { <<>>,
      << Box(xlen \div 2 - 2, xlen \div 2 + 2, ylen \div 2 - 2, ylen \div 2 + 2, 0, 20) >>,
      << Box(0, xlen, 0, ylen, 0, 0) >> }

\* objects of no room: none, one in a corner of this room, one across its edge
Orphans(xlen, ylen) ==
    { <<>>,
      << Box(0, 4, 0, 4, 0, 20) >>,
      << Box(-4, 4, 0, 4, 0, 20) >> }

RoomGeometries ==
    UNION { { [xlen |-> wh[1], ylen |-> wh[2],
               floor |-> Box(t, wh[1] - t, t, wh[2] - t, 0, 0),
               ceiling |-> Box(0, wh[1], 0, wh[2], RoomHeight, RoomHeight),
               inroom |-> Walls(wh[1], wh[2], t) \o f,
               orphans |-> o] :
                 t \in { i * WallThickness : i \in 0 .. MaxInset },
                 f \in Furniture(wh[1], wh[2]),
                 o \in Orphans(wh[1], wh[2]) } : wh \in RoomSizes }

\* the rooms the mask is asked for: a well-formed one and a malformed one
MaskRooms == {1, 8}

InitMask ==
    /\ pc = "mask"
    /\ cfg = DefaultScoreCfg
    /\ sc = NoCall
    /\ cache = NoCache
    /\ oc = NoObjectCall
    /\ ncalls = 0
    /\ \E room_node \in MaskRooms, geo \in RoomGeometries, clearance \in Clearances :
         mk = [room_node |-> room_node, geo |-> geo, clearance |-> clearance,
               out |-> <<>>]
    /\ IdlePipe
    /\ IdleSolo

\* one call ComputeViewpointMask(room_node, viewpoint_mask)
CallComputeViewpointMask ==
    /\ pc = "mask"
    /\ mk' = [mk EXCEPT !.out = ComputeViewpointMask(mk.room_node, mk.geo, mk.clearance)]
    /\ pc' = "masked"
    /\ UNCHANGED <<cfg, sc, cache, oc, ncalls, pipe, solo>>

NextMask == CallComputeViewpointMask

SpecMask == InitMask /\ [][NextMask]_vars

---------------------------------------------------------------------------
(* One pixel of RenderImage, rendered by both backends *)

\* how far from 0 and from NColors the scene indices tried go
IndexWindow == 40

\* the scene indices tried: those of a small scene, and those of a scene of
\* about NColors nodes
SceneIndices ==
    (0 .. IndexWindow) \cup (NColors - IndexWindow .. NColors + IndexWindow)

InitRender ==
    /\ pc = "render"
    /\ cfg = DefaultScoreCfg
    /\ sc = NoCall
    /\ cache = NoCache
    /\ oc = NoObjectCall
    /\ ncalls = 0
    /\ mk = NoMaskCall
    /\ IdlePipe
    /\ lp = NoLoops
    /\ pr = NoProcess
    /\ ob = NoNodeCheck
    /\ vp = NoView
    /\ px \in [hit : SceneIndices \cup {NoNode}, gl : {<<>>}, rc : {<<>>}]
    /\ tr = NoTrajectory
    /\ sel = NoSelection
    /\ ray = NoRay

\* RenderImageWithOpenGL(image, camera, scene, scene->Root(), NULL, ...)
CallRenderImageWithOpenGL ==
    /\ pc = "render"
    /\ px.gl = <<>>
    /\ px' = [px EXCEPT !.gl = <<OpenGLValue(px.hit)>>]
    /\ UNCHANGED <<pc, cfg, sc, cache, oc, ncalls, mk, pipe, tr, sel, ray, vp, ob, pr, lp>>

\* RenderImageWithRayCasting(image, camera, scene, scene->Root(), NULL, ...)
CallRenderImageWithRayCasting ==
    /\ pc = "render"
    /\ px.rc = <<>>
    /\ px' = [px EXCEPT !.rc = <<RayCastingValue(px.hit, NoNode)>>]
    /\ UNCHANGED <<pc, cfg, sc, cache, oc, ncalls, mk, pipe, tr, sel, ray, vp, ob, pr, lp>>

NextRender == CallRenderImageWithOpenGL \/ CallRenderImageWithRayCasting

SpecRender == InitRender /\ [][NextRender]_vars

---------------------------------------------------------------------------
(* InterpolateCameraTrajectory on a list of cameras.  RNScalar is a binary  *)
(* floating-point number: a value here is a whole number of a fixed small   *)
(* unit, kept to MantissaBits significant bits by rounding to nearest, ties *)
(* to even, as the machine does with the 53 bits of a double.               *)

\* the significant bits of a floating-point number
MantissaBits == 4

RECURSIVE BitLength(_)
BitLength(x) == IF x = 0 THEN 0 ELSE 1 + BitLength(x \div 2)

\* the floating-point number nearest to x
RoundToFloat(x) ==
    LET k == BitLength(x) - MantissaBits
    IN  IF k <= 0 THEN x
        ELSE LET q == Pow2(k)
                 m == x \div q
                 r == x - m * q
             IN  IF 2 * r > q \/ (2 * r = q /\ m % 2 = 1)
                 THEN (m + 1) * q ELSE m * q

\* a + b as the machine computes it
FloatAdd(a, b) == RoundToFloat(a + b)

RECURSIVE SplineParameters(_, _)
\* parameters[0] = 0; parameters[i] = parameters[i-1] + R3Distance + R3InteriorAngle
SplineParameters(seps, prev) ==
    IF seps = <<>> THEN <<prev>>
    ELSE <<prev>> \o SplineParameters(Tail(seps), FloatAdd(prev, Head(seps)))

\* viewpoint_spline.StartParameter(), viewpoint_spline.EndParameter()
StartParameter(parameters) == parameters[1]
EndParameter(parameters) == parameters[Len(parameters)]

RECURSIVE Resample(_, _, _)
\* for (u = StartParameter(); u <= EndParameter(); u += trajectory_step):
\* the parameters of the cameras inserted
Resample(u, end, trajectory_step) ==
    IF u <= end
    THEN <<u>> \o Resample(FloatAdd(u, trajectory_step), end, trajectory_step)
    ELSE <<>>

\* spline.PointPosition(u) of the spline through keypoints at parameters: a
\* point num / den of the segment between the keypoints on either side of u
PointPosition(keypoints, parameters, u) ==
    LET n == Len(parameters)
        i == CHOOSE k \in 1 .. n :
                parameters[k] <= u /\ (k = n \/ u < parameters[k + 1])
    IN  IF i = n \/ u = parameters[i] THEN [num |-> keypoints[i], den |-> 1]
        ELSE [num |-> [c \in 1 .. 3 |->
                          keypoints[i][c] * (parameters[i + 1] - u)
                          + keypoints[i + 1][c] * (u - parameters[i])],
              den |-> parameters[i + 1] - parameters[i]]

\* new Camera(viewpoint, towards.Vector(), up.Vector(), ...) for each u: the
\* camera holds the two vectors it is given
ResampledCameras(towards_keypoints, up_keypoints, parameters, samples) ==
    [i \in 1 .. Len(samples) |->
        [towards |-> PointPosition(towards_keypoints, parameters, samples[i]),
         up |-> PointPosition(up_keypoints, parameters, samples[i])]]

\* camera->Towards() of the cameras of the list: level unit vectors;
\* camera->Up() is the vertical unit vector for each of them
TowardsVectors == { <<1, 0, 0>>, <<0, 1, 0>>, <<-1, 0, 0>> }
UpVector == <<0, 0, 1>>

\* the largest distance plus angle between two cameras, and the largest step
MaxSeparation == 15
MaxStep == 5

\* steps below 2 units round away once u needs more than MantissaBits bits
TrajectorySteps == 2 .. MaxStep
Separations == { RoundToFloat(d) : d \in 0 .. MaxSeparation }

InitTrajectory ==
    /\ pc = "interpolate"
    /\ cfg = DefaultScoreCfg
    /\ sc = NoCall
    /\ cache = NoCache
    /\ oc = NoObjectCall
    /\ ncalls = 0
    /\ mk = NoMaskCall
    /\ IdlePipe
    /\ lp = NoLoops
    /\ pr = NoProcess
    /\ ob = NoNodeCheck
    /\ vp = NoView
    /\ px = NoPixel
    /\ sel = NoSelection
    /\ ray = NoRay
    /\ \E d1 \in Separations, d2 \in {0, MaxSeparation}, n \in 1 .. 2,
          step \in TrajectorySteps, t \in [1 .. 3 -> TowardsVectors] :
         \* cameras a distance plus angle of 0 apart look the same way
         /\ d1 = 0 => t[1] = t[2]
         /\ d2 = 0 => t[2] = t[3]
         /\ tr = [seps |-> SubSeq(<<d1, d2>>, 1, n),
                  towards |-> SubSeq(<<t[1], t[2], t[3]>>, 1, n + 1),
                  step |-> step, samples |-> <<>>, inserted |-> <<>>]

\* InterpolateCameraTrajectory(tr.step) on Len(tr.seps) + 1 cameras
CallInterpolateCameraTrajectory ==
    /\ pc = "interpolate"
    /\ LET parameters == SplineParameters(tr.seps, 0)
           samples == Resample(StartParameter(parameters),
                               EndParameter(parameters), tr.step)
           up_keypoints == [i \in 1 .. Len(tr.towards) |-> UpVector]
       IN  tr' = [tr EXCEPT !.samples = samples,
                            !.inserted = ResampledCameras(tr.towards,
                                            up_keypoints, parameters, samples)]
    /\ pc' = "resampled"
    /\ UNCHANGED <<cfg, sc, cache, oc, ncalls, mk, pipe, px, sel, ray, vp, ob, pr, lp>>

NextTrajectory == CallInterpolateCameraTrajectory

SpecTrajectory == InitTrajectory /\ [][NextTrajectory]_vars

---------------------------------------------------------------------------
(* The candidate loop the three strategies share, for one unit (an object,  *)
(* a wall, a direction of a room): each candidate camera is scored and      *)
(* "Remember best camera" runs on it, then "Insert best camera".            *)

\* the most candidates a unit has
MaxCandidates == 4

\* min_score: the default, and one that rejects some candidates
MinScores == { Lin(0, 1), Lin(1, 2) }

\* the values the candidate cameras get
CandidateScores == { ZeroScore, Lin(1, 4), Lin(1, 2), Lin(3, 4) }

RECURSIVE SeqsUpTo(_, _)
\* the sequences of at most n elements of S
SeqsUpTo(S, n) ==
    IF n = 0 THEN { <<>> }
    ELSE LET shorter == SeqsUpTo(S, n - 1)
         IN  shorter \cup { Append(q, x) : q \in shorter, x \in S }

InitSelect ==
    /\ pc = "candidate"
    /\ cfg = DefaultScoreCfg
    /\ sc = NoCall
    /\ cache = NoCache
    /\ oc = NoObjectCall
    /\ ncalls = 0
    /\ mk = NoMaskCall
    /\ IdlePipe
    /\ lp = NoLoops
    /\ pr = NoProcess
    /\ ob = NoNodeCheck
    /\ vp = NoView
    /\ px = NoPixel
    /\ tr = NoTrajectory
    /\ ray = NoRay
    /\ \E scores \in SeqsUpTo(CandidateScores, MaxCandidates),
          min_score \in MinScores :
         sel = [NoSelection EXCEPT !.scores = scores, !.min_score = min_score]

\* one pass of the innermost loop: camera.SetValue(...), the two checks,
\* "Remember best camera"
SelectCandidate ==
    /\ pc = "candidate"
    /\ sel.n < Len(sel.scores)
    /\ LET value == sel.scores[sel.n + 1]
       IN  sel' = [sel EXCEPT
                     !.n = sel.n + 1,
                     !.best = RememberBest(sel.best, value, sel.min_score),
                     !.pick = IF Replaces(sel.best, value, sel.min_score)
                              THEN sel.n + 1 ELSE sel.pick]
    /\ UNCHANGED <<pc, cfg, sc, cache, oc, ncalls, mk, pipe, px, tr, ray, vp, ob, pr, lp>>

\* "Insert best camera", once the loops over the candidates are done
SelectInsertBest ==
    /\ pc = "candidate"
    /\ sel.n = Len(sel.scores)
    /\ sel' = [sel EXCEPT !.list = InsertBest(sel.list, sel.best, NoName,
                                              "unit", NoNode, 0)]
    /\ pc' = "inserted"
    /\ UNCHANGED <<cfg, sc, cache, oc, ncalls, mk, pipe, px, tr, ray, vp, ob, pr, lp>>

NextSelect == SelectCandidate \/ SelectInsertBest

SpecSelect == InitSelect /\ [][NextSelect]_vars

---------------------------------------------------------------------------
(* One pass of the loop "Count how many points are visible" of             *)
(* ObjectCoverageScore.  Distances along the ray are in units of 0.005.    *)

\* const RNScalar tolerance_t = 0.01
tolerance_t == 2

\* RNIsEqual(a, b, tolerance)
RNIsEqual(a, b, tolerance) == a - b <= tolerance /\ b - a <= tolerance

\* scene->Intersects(ray, &hit_node, ..., &hit_t, min_t, max_t): the nearest
\* crossing of the ray with t in [min_t, max_t], <<>> if there is none
RECURSIVE Intersects(_, _, _)
Intersects(hits, min_t, max_t) ==
    IF hits = <<>> THEN <<>>
    ELSE IF min_t <= Head(hits).t /\ Head(hits).t <= max_t THEN <<Head(hits)>>
    ELSE Intersects(Tail(hits), min_t, max_t)

\* the body of the counting loop for the point at distance d: nvisible++ or not
CountsAsVisible(hits, node, d) ==
    LET max_t == d + tolerance_t
        hit == Intersects(hits, 0, max_t)
    IN  /\ hit # <<>>
        /\ hit[1].node = node
        /\ RNIsEqual(hit[1].t, max_t, tolerance_t)

\* the largest distance from the camera to a point
MaxDistance == 6

\* the crossings of a ray: none, one, or two at different distances
RayHits(nodes, ts) ==
    { <<>> } \cup { << [node |-> a, t |-> t] >> : a \in nodes, t \in ts }
    \cup { << [node |-> a, t |-> p[1]], [node |-> b, t |-> p[2]] >> :
             a \in nodes, b \in nodes, p \in { q \in ts \X ts : q[1] < q[2] } }

InitRay ==
    /\ pc = "ray"
    /\ cfg = DefaultScoreCfg
    /\ sc = NoCall
    /\ cache = NoCache
    /\ oc = NoObjectCall
    /\ ncalls = 0
    /\ mk = NoMaskCall
    /\ IdlePipe
    /\ lp = NoLoops
    /\ pr = NoProcess
    /\ ob = NoNodeCheck
    /\ vp = NoView
    /\ px = NoPixel
    /\ tr = NoTrajectory
    /\ sel = NoSelection
    /\ \E node \in {5, 6}, d \in tolerance_t .. MaxDistance :
         \E hits \in RayHits({5, 6}, 0 .. d + 2 * tolerance_t) :
            ray = [hits |-> hits, node |-> node, d |-> d, counted |-> FALSE]

\* one pass of the counting loop
CountVisiblePoint ==
    /\ pc = "ray"
    /\ ray' = [ray EXCEPT !.counted = CountsAsVisible(ray.hits, ray.node, ray.d)]
    /\ pc' = "counted"
    /\ UNCHANGED <<cfg, sc, cache, oc, ncalls, mk, pipe, px, tr, sel, vp, ob, pr, lp>>

NextRay == CountVisiblePoint

SpecRay == InitRay /\ [][NextRay]_vars

---------------------------------------------------------------------------
(* The viewpoint of one candidate camera of CreateObjectCameras: its height *)
(* after "Project camera viewpoint onto eye height plane" and "Ensure       *)
(* centroid is not occluded".                                              *)

\* eye_height_radius = 0.05
eye_height_radius == 2

\* node->Parent() has a name in which strstr finds "Room" or "Floor"
ParentIsRoomOrFloor(node) ==
    /\ Parent(node) # NoNode
    /\ Name(Parent(node)) # NoName
    /\ \E p \in 1 .. Len(Name(Parent(node))) :
          Name(Parent(node))[p] \in {"Room#", "Floors#"}

\* the length of the vector (h, 0, v), for the h and v that have a whole one
VectorLength(h, v) == CHOOSE l \in 0 .. h + v * v : l * l = h * h + v * v

\* viewpoint[2] when the camera is computed
ViewpointHeight(node, centroid_z, floor_z, offset, max_distance, hit, min_distance_from_obstacle) ==
    LET \* viewpoint = centroid - max_distance * view_direction, then
        \* viewpoint[2] = floor[2] + eye_height + the jitter
        projected == IF ParentIsRoomOrFloor(node)
                     THEN floor_z + EyeHeight + offset ELSE centroid_z
        \* back = viewpoint - centroid, normalized
        rise == projected - centroid_z
        length == VectorLength(max_distance, rise)
    IN  IF hit = <<>> THEN [num |-> projected, den |-> 1]
        \* viewpoint = centroid + (hit_t - min_distance_from_obstacle) * back
        ELSE [num |-> centroid_z * length
                        + (hit[1] - min_distance_from_obstacle) * rise,
              den |-> length]

\* the largest max_distance, in units of 0.25
MaxBack == 4

\* max_distance and the height of the viewpoint above the centroid, in the
\* ratios 4 : 0 and 4 : 3, up or down
BackAndRise ==
    { <<10 * b, 0>> : b \in 1 .. MaxBack }
    \cup { <<8 * b, r * 6 * b>> : b \in 1 .. MaxBack, r \in {-1, 1} }

InitView ==
    /\ pc = "view"
    /\ cfg = DefaultScoreCfg
    /\ sc = NoCall
    /\ cache = NoCache
    /\ oc = NoObjectCall
    /\ ncalls = 0
    /\ mk = NoMaskCall
    /\ IdlePipe
    /\ lp = NoLoops
    /\ pr = NoProcess
    /\ ob = NoNodeCheck
    /\ px = NoPixel
    /\ tr = NoTrajectory
    /\ sel = NoSelection
    /\ ray = NoRay
    /\ \E node \in {5, 13}, floor_z \in {0, 8},
          offset \in -eye_height_radius .. eye_height_radius - 1,
          br \in BackAndRise :
         \E hit \in { <<>> } \cup { <<t>> : t \in { DefaultSpacing, br[1] \div 2, br[1] } } :
            vp = [NoView EXCEPT
                    !.node = node, !.floor_z = floor_z, !.offset = offset,
                    !.centroid_z = floor_z + EyeHeight + offset - br[2],
                    !.max_distance = br[1], !.hit = hit]

\* "Determine camera viewpoint" to "Compute camera" for one direction
ComputeViewpoint ==
    /\ pc = "view"
    /\ vp' = [vp EXCEPT !.z = ViewpointHeight(vp.node, vp.centroid_z, vp.floor_z,
                                vp.offset, vp.max_distance, vp.hit, DefaultSpacing)]
    /\ pc' = "viewed"
    /\ UNCHANGED <<cfg, sc, cache, oc, ncalls, mk, pipe, px, tr, sel, ray, ob, pr, lp>>

NextView == ComputeViewpoint

SpecView == InitView /\ [][NextView]_vars

---------------------------------------------------------------------------
(* IsObject on nodes of any name and any number of children *)

\* the most children a node has, and the most tokens a name has
MaxChildren == 2
MaxTokens == 2

\* the pieces node names are made of
NameTokens == { "Walls#", "Floors#", "Ceilings#", "Door", "Window", "Room#",
               "chair" }

\* the names a node can have: none (NULL), or a string of tokens
NodeNames == { NoName } \cup SeqsUpTo(NameTokens, MaxTokens)

InitObject ==
    /\ pc = "classify"
    /\ cfg = DefaultScoreCfg
    /\ sc = NoCall
    /\ cache = NoCache
    /\ oc = NoObjectCall
    /\ ncalls = 0
    /\ mk = NoMaskCall
    /\ IdlePipe
    /\ lp = NoLoops
    /\ pr = NoProcess
    /\ px = NoPixel
    /\ tr = NoTrajectory
    /\ sel = NoSelection
    /\ ray = NoRay
    /\ vp = NoView
    /\ \E name \in NodeNames, nchildren \in 0 .. MaxChildren :
         ob = [name |-> name, nchildren |-> nchildren, is_object |-> FALSE]

\* IsObject(node)
CallIsObject ==
    /\ pc = "classify"
    /\ ob' = [ob EXCEPT !.is_object = IsObjectNode(ob.name, ob.nchildren)]
    /\ pc' = "classified"
    /\ UNCHANGED <<cfg, sc, cache, oc, ncalls, mk, pipe, px, tr, sel, ray, vp, pr, lp>>

NextObject == CallIsObject

SpecObject == InitObject /\ [][NextObject]_vars

---------------------------------------------------------------------------
(* main: the three backend modes around CreateAndWriteCameras.  In the     *)
(* -glut mode CreateAndWriteCameras is the display callback of the window. *)

\* the most display events GLUT holds for the window, and the most cameras
\* the strategies leave in the list
MaxEvents == 3
MaxListed == 2

\* -glut, -mesa, -raycast
BackendModes == {"glut", "mesa", "raycast"}

\* the process has ended: exit(0), a crash, or the return 0 of main
ProcessEnded == pc \in {"exited", "aborted", "returned"}

InitMain ==
    /\ pc = "main"
    /\ cfg = DefaultScoreCfg
    /\ sc = NoCall
    /\ cache = NoCache
    /\ oc = NoObjectCall
    /\ ncalls = 0
    /\ mk = NoMaskCall
    /\ IdlePipe
    /\ lp = NoLoops
    /\ px = NoPixel
    /\ tr = NoTrajectory
    /\ sel = NoSelection
    /\ ray = NoRay
    /\ vp = NoView
    /\ ob = NoNodeCheck
    /\ \E mode \in BackendModes, interpolate \in BOOLEAN :
         pr = [NoProcess EXCEPT !.mode = mode, !.interpolate = interpolate,
                                !.status = "running"]

\* the entry of CreateAndWriteCameras
EnterCreateAndWriteCameras(p) == [p EXCEPT !.runs = p.runs + 1]

\* else CreateAndWriteCameras();
MainCreateAndWriteCameras ==
    /\ pc = "main"
    /\ pr.mode = "raycast"
    /\ pr' = EnterCreateAndWriteCameras(pr)
    /\ pc' = "create_cameras"
    /\ UNCHANGED <<cfg, sc, cache, oc, ncalls, mk, pipe, px, tr, sel, ray, vp, ob, lp>>

\* if (mesa) CreateAndWriteCamerasWithMesa(): it returns 0 when the context
\* or the frame buffer cannot be set up; main ignores that and returns 0
CreateAndWriteCamerasWithMesa ==
    /\ pc = "main"
    /\ pr.mode = "mesa"
    /\ \E context \in BOOLEAN :
          IF context
          THEN pr' = EnterCreateAndWriteCameras(pr) /\ pc' = "create_cameras"
          ELSE pr' = [pr EXCEPT !.status = "return 0"] /\ pc' = "returned"
    /\ UNCHANGED <<cfg, sc, cache, oc, ncalls, mk, pipe, px, tr, sel, ray, vp, ob, lp>>

\* else if (glut) CreateAndWriteCamerasWithGlut(): the window is created,
\* CreateAndWriteCameras registered as its display callback, glutMainLoop
\* entered
CreateAndWriteCamerasWithGlut ==
    /\ pc = "main"
    /\ pr.mode = "glut"
    /\ pc' = "glut_main_loop"
    /\ UNCHANGED <<cfg, sc, cache, oc, ncalls, mk, pipe, px, tr, sel, ray, vp, ob, pr, lp>>

\* the window system asks for the window to be displayed, at any time while
\* the process has the window
DisplayEvent ==
    /\ pr.mode = "glut"
    /\ pc \in {"glut_main_loop", "create_cameras", "post_process", "write_cameras"}
    /\ pr.pending < MaxEvents
    /\ pr' = [pr EXCEPT !.pending = pr.pending + 1]
    /\ UNCHANGED <<pc, cfg, sc, cache, oc, ncalls, mk, pipe, px, tr, sel, ray, vp, ob, lp>>

\* glutMainLoop calls the display callback for a display event it holds
GlutMainLoop ==
    /\ pc = "glut_main_loop"
    /\ pr.pending > 0
    /\ pr' = EnterCreateAndWriteCameras([pr EXCEPT !.pending = pr.pending - 1])
    /\ pc' = "create_cameras"
    /\ UNCHANGED <<cfg, sc, cache, oc, ncalls, mk, pipe, px, tr, sel, ray, vp, ob, lp>>

\* the enabled strategies, on the cameras read from the input file if any
CreateCameras ==
    /\ pc = "create_cameras"
    /\ \E n \in 0 .. MaxListed : pr' = [pr EXCEPT !.ncameras = n]
    /\ pc' = "post_process"
    /\ UNCHANGED <<cfg, sc, cache, oc, ncalls, mk, pipe, px, tr, sel, ray, vp, ob, lp>>

\* InterpolateCameraTrajectory (cameras.Head() of an empty list is undefined)
\* or SortCameras
PostProcessCameras ==
    /\ pc = "post_process"
    /\ \E ub \in UBOutcomes :
          IF pr.interpolate /\ pr.ncameras = 0 /\ ub = "trap"
          THEN pr' = [pr EXCEPT !.status = "crash"] /\ pc' = "aborted"
          ELSE pr' = pr /\ pc' = "write_cameras"
    /\ UNCHANGED <<cfg, sc, cache, oc, ncalls, mk, pipe, px, tr, sel, ray, vp, ob, lp>>

\* WriteCameras(); exit(0);
WriteCamerasAndExit ==
    /\ pc = "write_cameras"
    /\ pr' = [pr EXCEPT !.writes = pr.writes + 1, !.status = "exit 0"]
    /\ pc' = "exited"
    /\ UNCHANGED <<cfg, sc, cache, oc, ncalls, mk, pipe, px, tr, sel, ray, vp, ob, lp>>

NextMain ==
    \/ MainCreateAndWriteCameras
    \/ CreateAndWriteCamerasWithMesa
    \/ CreateAndWriteCamerasWithGlut
    \/ DisplayEvent
    \/ GlutMainLoop
    \/ CreateCameras
    \/ PostProcessCameras
    \/ WriteCamerasAndExit

SpecMain == InitMain /\ [][NextMain]_vars

---------------------------------------------------------------------------
(* The floating-point loops of a run with -create_room_cameras and         *)
(* -interpolate_camera_trajectory: the position loops of CreateRoomCameras *)
(* and the resampling loop of InterpolateCameraTrajectory, then the write  *)
(* step.  The loop variables are RNScalar: sums are rounded as FloatAdd    *)
(* rounds them.                                                            *)

\* the largest position_sampling and interpolation_step, in units
MaxSampling == 2

\* room_bbox.XMin() = YMin() and XMax() = YMax(): boxes at and away from the
\* origin
RoomBoxes ==
    { <<lo, lo + ext>> : lo \in {0, Pow2(MantissaBits)},
                         ext \in {2, Pow2(MantissaBits - 1)} }

\* viewpoint_spline.EndParameter()
EndParameters == {3, Pow2(MantissaBits) + Pow2(MantissaBits - 1)}

InitLoops ==
    /\ pc = "room_y"
    /\ cfg = DefaultScoreCfg
    /\ sc = NoCall
    /\ cache = NoCache
    /\ oc = NoObjectCall
    /\ ncalls = 0
    /\ mk = NoMaskCall
    /\ IdlePipe
    /\ px = NoPixel
    /\ tr = NoTrajectory
    /\ sel = NoSelection
    /\ ray = NoRay
    /\ vp = NoView
    /\ ob = NoNodeCheck
    /\ pr = NoProcess
    /\ \E box \in RoomBoxes, end \in EndParameters,
          position_sampling \in 1 .. MaxSampling,
          trajectory_step \in 1 .. MaxSampling :
         lp = [lo |-> box[1], hi |-> box[2],
               position_sampling |-> position_sampling, end |-> end,
               trajectory_step |-> trajectory_step,
               y |-> box[1], x |-> box[1], u |-> 0, passes |-> 0]

\* one more pass of a loop made
Pass(l) == [l EXCEPT !.passes = (l.passes + 1) % 2]

\* for (RNScalar y = room_bbox.YMin(); y <= room_bbox.YMax(); ...): the test,
\* then the x loop from room_bbox.XMin(), or the end of the strategy
RoomLoopY ==
    /\ pc = "room_y"
    /\ IF lp.y <= lp.hi
       THEN pc' = "room_x" /\ lp' = [Pass(lp) EXCEPT !.x = lp.lo]
       ELSE pc' = "resample" /\ lp' = [lp EXCEPT !.u = 0]
    /\ UNCHANGED <<cfg, sc, cache, oc, ncalls, mk, pipe, px, tr, sel, ray, vp, ob, pr>>

\* for (RNScalar x = room_bbox.XMin(); x <= room_bbox.XMax(); x +=
\* position_sampling): the candidate at (x, y) is scored, the call returns;
\* after the last x, y += position_sampling
RoomLoopX ==
    /\ pc = "room_x"
    /\ IF lp.x <= lp.hi
       THEN /\ pc' = pc
            /\ lp' = [Pass(lp) EXCEPT !.x = FloatAdd(lp.x, lp.position_sampling)]
       ELSE /\ pc' = "room_y"
            /\ lp' = [lp EXCEPT !.y = FloatAdd(lp.y, lp.position_sampling)]
    /\ UNCHANGED <<cfg, sc, cache, oc, ncalls, mk, pipe, px, tr, sel, ray, vp, ob, pr>>

\* for (RNScalar u = StartParameter(); u <= EndParameter(); u +=
\* trajectory_step): a camera is inserted for u
ResampleLoop ==
    /\ pc = "resample"
    /\ IF lp.u <= lp.end
       THEN /\ pc' = pc
            /\ lp' = [Pass(lp) EXCEPT !.u = FloatAdd(lp.u, lp.trajectory_step)]
       ELSE /\ pc' = "write_step"
            /\ lp' = lp
    /\ UNCHANGED <<cfg, sc, cache, oc, ncalls, mk, pipe, px, tr, sel, ray, vp, ob, pr>>

\* WriteCameras(); exit(0);
LoopsWriteAndExit ==
    /\ pc = "write_step"
    /\ pc' = "exit_written"
    /\ UNCHANGED <<cfg, sc, cache, oc, ncalls, mk, pipe, px, tr, sel, ray, vp, ob, pr, lp>>

NextLoops == RoomLoopY \/ RoomLoopX \/ ResampleLoop \/ LoopsWriteAndExit

\* the program is one thread that runs on while it has a step to take
SpecLoops == InitLoops /\ [][NextLoops]_vars /\ WF_vars(NextLoops)

---------------------------------------------------------------------------
(* The camera pipeline: CreateAndWriteCameras on the parsed arguments *)

\* the largest nangles of a run
MaxAngles == 2
\* angle_sampling = 2 pi p / q: 6 pi, and 2 pi / (n - 1/2) for n = 1 .. MaxAngles
AngleSamplings ==
    { [p |-> 3, q |-> 1] } \cup { [p |-> 2, q |-> 2 * n - 1] : n \in 1 .. MaxAngles }

\* the -create_..._cameras options of a run, after the default of ParseArgs
CreateFlags ==
    { [object |-> TRUE, wall |-> FALSE, room |-> FALSE],
      [object |-> FALSE, wall |-> TRUE, room |-> FALSE],
      [object |-> FALSE, wall |-> FALSE, room |-> TRUE] }

\* the runs checked: both scoring methods and both states of the project data
\* for the wall strategy
RunCfgs ==
    UNION { { [width |-> 20, height |-> 10, glut |-> TRUE, mesa |-> FALSE,
               scene_scoring_method |-> meth, min_visible_objects |-> 1,
               min_distance_from_obstacle |-> DefaultSpacing,
               create_object_cameras |-> f.object,
               create_wall_cameras |-> f.wall,
               create_room_cameras |-> f.room,
               interpolate_camera_trajectory |-> interp,
               angle_sampling |-> a, min_score |-> ms, project |-> proj] :
                 meth \in IF f.wall THEN {0, 1} ELSE {0},
                 interp \in BOOLEAN, a \in AngleSamplings, ms \in MinScores,
                 proj \in IF f.wall THEN BOOLEAN ELSE {TRUE} } : f \in CreateFlags }

\* what the candidate cameras of the wall and room strategies see
CandidateViews ==
    { <<0, 0, 0, 0, 0>>, <<3, 3, 0, 0, 0>>, <<100, 50, 50, 0, 0>> }

Init ==
    /\ pc = "create_object"
    /\ cfg \in RunCfgs
    /\ sc = NoCall
    /\ cache = NoCache
    /\ oc = NoObjectCall
    /\ ncalls = 0
    /\ mk = NoMaskCall
    /\ IdlePipe
    /\ IdleSolo

\* the variables the pipeline leaves alone
idle == <<cfg, sc, oc, ncalls, mk, solo>>

\* if (create_object_cameras) CreateObjectCameras();
EnterCreateObjectCameras ==
    /\ pc = "create_object"
    /\ IF cfg.create_object_cameras
       THEN pc' = "object_node" /\ loop' = NoLoop
       ELSE pc' = "create_wall" /\ loop' = loop
    /\ UNCHANGED <<idle, cache, cameras, last, file>>

\* for (int i = 0; i < scene->NNodes(); i++): the next node, or the return
ObjectNextNode ==
    /\ pc = "object_node"
    /\ IF loop.i = NNodes
       THEN pc' = "create_wall" /\ loop' = NoLoop
       ELSE IF ~IsObjectCandidate(loop.i)
       THEN pc' = pc /\ loop' = [loop EXCEPT !.i = loop.i + 1]
       ELSE /\ pc' = "object_angle"
            /\ loop' = [loop EXCEPT !.j = 0, !.best = DefaultValue, !.seen = {}]
    /\ UNCHANGED <<idle, cache, cameras, last, file>>

\* one pass of the loop over j: a camera, its score, "Remember best camera"
ObjectCandidate ==
    /\ pc = "object_angle"
    /\ loop.j < NAngles(cfg.angle_sampling)
    /\ \E vis \in VisPatterns : \E ups \in DrawsOfCall(cache, loop.i) :
          LET out == ObjectCoverageScore(cache, loop.i, ups, vis)
          IN  /\ cache' = out.cache
              /\ loop' = [loop EXCEPT
                            !.j = loop.j + 1,
                            !.best = RememberBest(loop.best, out.score, cfg.min_score),
                            !.seen = loop.seen \cup {out.score}]
    /\ UNCHANGED <<pc, idle, cameras, last, file>>

\* "Insert best camera" of CreateObjectCameras, and i++
ObjectInsertBest ==
    /\ pc = "object_angle"
    /\ loop.j = NAngles(cfg.angle_sampling)
    /\ cameras' = InsertBest(cameras, loop.best, ObjectCameraName(loop.i),
                             "object", loop.i, 0)
    /\ last' = [kind |-> "object", node |-> loop.i, j |-> 0, seen |-> loop.seen,
                before |-> Len(cameras), after |-> Len(cameras')]
    /\ loop' = [loop EXCEPT !.i = loop.i + 1]
    /\ pc' = "object_node"
    /\ UNCHANGED <<idle, cache, file>>

\* if (create_wall_cameras) CreateWallCameras(); with its checks of the root
EnterCreateWallCameras ==
    /\ pc = "create_wall"
    /\ IF /\ cfg.create_wall_cameras
          /\ Name(Root) # NoName
          /\ StartsWith(Name(Root), "Project#")
          /\ cfg.project
       THEN pc' = "wall_room" /\ loop' = NoLoop
       ELSE pc' = "create_room" /\ loop' = loop
    /\ UNCHANGED <<idle, cache, cameras, last, file>>

\* "For every room": the next room of the project, or the return
WallNextRoom ==
    /\ pc = "wall_room"
    /\ IF loop.i = Len(ProjectRooms)
       THEN pc' = "create_room" /\ loop' = NoLoop
       ELSE IF ~IsWallRoom(ProjectRooms[loop.i + 1])
       THEN pc' = pc /\ loop' = [loop EXCEPT !.i = loop.i + 1]
       ELSE pc' = "wall_wall" /\ loop' = [loop EXCEPT !.k = 0]
    /\ UNCHANGED <<idle, cache, cameras, last, file>>

\* "For every wall": the next wall of the room, or the next room
WallNextWall ==
    /\ pc = "wall_wall"
    /\ IF loop.k = Len(ProjectRooms[loop.i + 1].walls)
       THEN pc' = "wall_room" /\ loop' = [loop EXCEPT !.i = loop.i + 1]
       ELSE /\ pc' = "wall_candidate"
            /\ loop' = [loop EXCEPT !.n = 0, !.best = DefaultValue, !.seen = {}]
    /\ UNCHANGED <<idle, cache, cameras, last, file>>

\* one camera of the loops over the wall's locations and view directions
WallCandidate ==
    /\ pc = "wall_candidate"
    /\ loop.n < ProjectRooms[loop.i + 1].walls[loop.k + 1]
    /\ \E view \in CandidateViews :
          LET room_node == ProjectRooms[loop.i + 1].data
              value == SceneCoverageScore(view, room_node, cfg, "wrap").score
          IN  loop' = [loop EXCEPT
                         !.n = loop.n + 1,
                         !.best = RememberBest(loop.best, value, cfg.min_score),
                         !.seen = loop.seen \cup {value}]
    /\ UNCHANGED <<pc, idle, cache, cameras, last, file>>

\* "Insert best camera" of CreateWallCameras, and k++
WallInsertBest ==
    /\ pc = "wall_candidate"
    /\ loop.n = ProjectRooms[loop.i + 1].walls[loop.k + 1]
    /\ LET room_node == ProjectRooms[loop.i + 1].data
       IN  /\ cameras' = InsertBest(cameras, loop.best,
                                    WallCameraName(room_node, loop.k),
                                    "wall", room_node, loop.k)
           /\ last' = [kind |-> "wall", node |-> room_node, j |-> loop.k,
                       seen |-> loop.seen,
                       before |-> Len(cameras), after |-> Len(cameras')]
    /\ loop' = [loop EXCEPT !.k = loop.k + 1]
    /\ pc' = "wall_wall"
    /\ UNCHANGED <<idle, cache, file>>

\* if (create_room_cameras) CreateRoomCameras();
EnterCreateRoomCameras ==
    /\ pc = "create_room"
    /\ IF cfg.create_room_cameras
       THEN pc' = "room_node" /\ loop' = NoLoop
       ELSE pc' = "trajectory" /\ loop' = loop
    /\ UNCHANGED <<idle, cache, cameras, last, file>>

\* "Create one camera per direction per room": the next node, or the return
RoomNextNode ==
    /\ pc = "room_node"
    /\ IF loop.i = NNodes
       THEN pc' = "trajectory" /\ loop' = NoLoop
       ELSE IF ~IsRoomCandidate(loop.i)
       THEN pc' = pc /\ loop' = [loop EXCEPT !.i = loop.i + 1]
       ELSE \E offset \in EyeOffsets :
              LET viewpoint_mask ==
                     ComputeViewpointMask(loop.i, RoomGeometry(loop.i),
                                          cfg.min_distance_from_obstacle)
              IN  IF EyeAboveRoom(loop.i, offset) \/ ~viewpoint_mask.ok
                  THEN pc' = pc /\ loop' = [loop EXCEPT !.i = loop.i + 1]
                  ELSE /\ pc' = "room_angle"
                       /\ loop' = [loop EXCEPT !.j = 0, !.mask = viewpoint_mask.mask]
    /\ UNCHANGED <<idle, cache, cameras, last, file>>

\* "Sample directions": the next direction j, or the next node
RoomNextAngle ==
    /\ pc = "room_angle"
    /\ IF loop.j = NAngles(cfg.angle_sampling)
       THEN pc' = "room_node" /\ loop' = [loop EXCEPT !.i = loop.i + 1, !.mask = NoGrid]
       ELSE /\ pc' = "room_position"
            /\ loop' = [loop EXCEPT !.n = 0, !.best = DefaultValue, !.seen = {},
                                    !.position = OffGrid, !.scored = FALSE,
                                    !.viewpoint = OffGrid]
    /\ UNCHANGED <<idle, cache, cameras, last, file>>

\* one position of the loops over y and x: the mask, the camera, its score
RoomCandidate ==
    /\ pc = "room_position"
    /\ loop.n < Len(RoomPositions)
    /\ \E position \in RoomPositions[loop.n + 1] :
          IF ~Admissible(loop.mask, position)
          THEN loop' = [loop EXCEPT !.n = loop.n + 1, !.position = position,
                                    !.scored = FALSE]
          ELSE \E view \in CandidateViews :
                 LET value == SceneCoverageScore(view, loop.i, cfg, "wrap").score
                 IN  loop' = [loop EXCEPT
                                !.n = loop.n + 1,
                                !.position = position,
                                !.scored = TRUE,
                                !.best = RememberBest(loop.best, value, cfg.min_score),
                                !.viewpoint =
                                    IF Replaces(loop.best, value, cfg.min_score)
                                    THEN position ELSE loop.viewpoint,
                                !.seen = loop.seen \cup {value}]
    /\ UNCHANGED <<pc, idle, cache, cameras, last, file>>

\* "Insert best camera for direction in room", and j++
RoomInsertBest ==
    /\ pc = "room_position"
    /\ loop.n = Len(RoomPositions)
    /\ cameras' = InsertBest(cameras, loop.best, RoomCameraName(loop.i, loop.j),
                             "room", loop.i, loop.j)
    /\ last' = [kind |-> "room", node |-> loop.i, j |-> loop.j, seen |-> loop.seen,
                before |-> Len(cameras), after |-> Len(cameras')]
    /\ loop' = [loop EXCEPT !.j = loop.j + 1]
    /\ pc' = "room_angle"
    /\ UNCHANGED <<idle, cache, file>>

\* the most cameras the resampling loop of a run appends
MaxSamples == 2

\* the cameras the loop "Resample splines" inserts: sprintf(name, "T%f", u)
RECURSIVE TrajectoryCameras(_)
TrajectoryCameras(m) ==
    IF m = 0 THEN <<>>
    ELSE Append(TrajectoryCameras(m - 1),
                Camera(DefaultValue, <<"T">> \o Decimal(m - 1), "trajectory", NoNode, m - 1))

\* the numbers of passes the resampling loop can make on nkeypoints cameras:
\* u runs from the first parameter to the last in steps of trajectory_step,
\* and the two coincide when there is one keypoint
SampleCounts(nkeypoints) ==
    IF nkeypoints = 0 THEN 0 .. 1
    ELSE IF nkeypoints = 1 THEN {1}
    ELSE 1 .. MaxSamples

\* if (interpolate_camera_trajectory) InterpolateCameraTrajectory(...):
\* it reads cameras.Head() with no check of the number of cameras (undefined
\* on an empty array) and it returns 1 on every path
InterpolateCameraTrajectory ==
    /\ pc = "trajectory"
    /\ cfg.interpolate_camera_trajectory
    /\ \E ub \in UBOutcomes :
          IF cameras = <<>> /\ ub = "trap"
          THEN /\ pc' = "crashed"
               /\ file' = [file EXCEPT !.interpolated = TRUE, !.nkeypoints = 0]
               /\ UNCHANGED cameras
          ELSE \E m \in SampleCounts(Len(cameras)) :
                 /\ cameras' = TrajectoryCameras(m)
                 /\ file' = [file EXCEPT !.interpolated = TRUE,
                                         !.nkeypoints = Len(cameras),
                                         !.post = Append(@, "interpolate")]
                 /\ pc' = "write"
    /\ UNCHANGED <<idle, cache, loop, last>>

\* SortCameras() called whether or not the trajectory is interpolated
SortCameras_Always ==
    /\ pc = "trajectory"
    /\ \E dir \in {"ascending", "descending"}, ties \in {"keep", "reverse"} :
          cameras' = SortedCameras(cameras, dir, ties)
    /\ file' = [file EXCEPT !.post = Append(@, "sort")]
    /\ pc' = "write"
    /\ UNCHANGED <<idle, cache, loop, last>>

\* else SortCameras();
SortCameras ==
    /\ pc = "trajectory"
    /\ ~cfg.interpolate_camera_trajectory
    /\ \E dir \in {"ascending", "descending"}, ties \in {"keep", "reverse"} :
          cameras' = SortedCameras(cameras, dir, ties)
    /\ file' = [file EXCEPT !.post = Append(@, "sort")]
    /\ pc' = "write"
    /\ UNCHANGED <<idle, cache, loop, last>>

\* WriteCameras(); exit(0);
WriteCameras ==
    /\ pc = "write"
    /\ file' = [file EXCEPT !.written = TRUE, !.cameras = cameras]
    /\ pc' = "exit"
    /\ UNCHANGED <<idle, cache, cameras, loop, last>>

Next ==
    \/ EnterCreateObjectCameras
    \/ ObjectNextNode
    \/ ObjectCandidate
    \/ ObjectInsertBest
    \/ EnterCreateWallCameras
    \/ WallNextRoom
    \/ WallNextWall
    \/ WallCandidate
    \/ WallInsertBest
    \/ EnterCreateRoomCameras
    \/ RoomNextNode
    \/ RoomNextAngle
    \/ RoomCandidate
    \/ RoomInsertBest
    \/ InterpolateCameraTrajectory
    \/ SortCameras
    \/ WriteCameras

Spec == Init /\ [][Next]_vars

---------------------------------------------------------------------------
(* The generation phase of runs with two strategies enabled, with and      *)
(* without cameras read from an input file.                                *)

\* the list after ReadCameras(input_cameras_filename): one camera
InputCameras == << Camera(Lin(1, 2), <<"input">>, "input", NoNode, 0) >>

\* -create_object_cameras -create_wall_cameras and -create_wall_cameras
\* -create_room_cameras, with -angle_sampling 6.2832 -min_score 0.5
GenerateCfgs ==
    { [width |-> 20, height |-> 10, glut |-> TRUE, mesa |-> FALSE,
       scene_scoring_method |-> 0, min_visible_objects |-> 1,
       min_distance_from_obstacle |-> DefaultSpacing,
       create_object_cameras |-> f.object,
       create_wall_cameras |-> TRUE,
       create_room_cameras |-> f.room,
       interpolate_camera_trajectory |-> FALSE,
       angle_sampling |-> [p |-> 2, q |-> 1], min_score |-> Lin(1, 2),
       project |-> TRUE] :
         f \in { [object |-> TRUE, room |-> FALSE],
                 [object |-> FALSE, room |-> TRUE] } }

InitGenerate ==
    /\ pc = "create_object"
    /\ cfg \in GenerateCfgs
    /\ sc = NoCall
    /\ cache = NoCache
    /\ oc = NoObjectCall
    /\ ncalls = 0
    /\ mk = NoMaskCall
    /\ cameras \in { <<>>, InputCameras }
    /\ loop = NoLoop
    /\ last = NoUnit
    /\ file = NoFile
    /\ IdleSolo

\* the steps of the three strategies, up to the post-processing step
NextGenerate ==
    \/ EnterCreateObjectCameras
    \/ ObjectNextNode
    \/ ObjectCandidate
    \/ ObjectInsertBest
    \/ EnterCreateWallCameras
    \/ WallNextRoom
    \/ WallNextWall
    \/ WallCandidate
    \/ WallInsertBest
    \/ EnterCreateRoomCameras
    \/ RoomNextNode
    \/ RoomNextAngle
    \/ RoomCandidate
    \/ RoomInsertBest

SpecGenerate == InitGenerate /\ [][NextGenerate]_vars

---------------------------------------------------------------------------
(* Properties of the generation phase (checked under SpecGenerate) *)

\* where the cameras of a kind come in the list
KindRank(kind) ==
    CASE kind = "input" -> 0
      [] kind = "object" -> 1
      [] kind = "wall" -> 2
      [] kind = "room" -> 3

\* C27: a step of the generation phase leaves the cameras already in the
\* list as they are and where they are, adding cameras at the end only, and
\* the list holds the cameras of the input file first, then those of the
\* object, the wall and the room strategy
C27_ListOnlyGrows ==
    [][/\ Len(cameras') >= Len(cameras)
       /\ SubSeq(cameras', 1, Len(cameras)) = cameras
       /\ \A idx \in 1 .. Len(cameras') - 1 :
            KindRank(cameras'[idx].kind) <= KindRank(cameras'[idx + 1].kind)]_vars

\* C27 witness: the generation phase has ended with a camera of the input
\* file, then an object camera, then a wall camera in the list
C27_Witness ==
    /\ pc = "trajectory"
    /\ Len(cameras) >= 3
    /\ cameras[1].kind = "input"
    /\ cameras[2].kind = "object"
    /\ cameras[Len(cameras)].kind = "wall"

---------------------------------------------------------------------------
(* Properties of the camera pipeline (checked under Spec) *)

Positive(value) == ScoreGT(value, ZeroScore)
Qualifies(value) == Positive(value) /\ ScoreGE(value, cfg.min_score)
Generated(c) == c.kind \in {"object", "wall", "room"}
CamerasOf(kind, node) ==
    { idx \in 1 .. Len(cameras) : cameras[idx].kind = kind /\ cameras[idx].node = node }

\* C1: the unit (object, wall, or room and direction) whose candidates were
\* last gone through got a camera appended if and only if one of its
\* candidates scored above 0 and at least min_score; and no camera a strategy
\* has put in the list scores 0 or below min_score
C1_EmittedIffQualifying ==
    /\ last.kind # "none" =>
          /\ last.after \in {last.before, last.before + 1}
          /\ (last.after = last.before + 1) <=> (\E value \in last.seen : Qualifies(value))
    /\ \A idx \in 1 .. Len(cameras) :
          Generated(cameras[idx]) => Qualifies(cameras[idx].value)

\* C1 witness: a unit got its camera although one of its candidates scored
\* above 0 but below min_score
C1_Witness ==
    /\ last.kind # "none"
    /\ last.after = last.before + 1
    /\ \E value \in last.seen : Positive(value) /\ ScoreLT(value, cfg.min_score)

\* C2: CreateObjectCameras leaves at most one camera for a node that
\* IsObject accepts and none for any other node, whatever nangles is
C2_OnePerObject ==
    \A node \in NodeIds :
        Cardinality(CamerasOf("object", node)) <= (IF IsObject(node) THEN 1 ELSE 0)

\* C2 witness: CreateObjectCameras has returned after going through more
\* than one direction per object, with cameras of two objects in the list
C2_Witness ==
    /\ pc = "create_wall"
    /\ cfg.create_object_cameras
    /\ NAngles(cfg.angle_sampling) > 1
    /\ \E a, b \in NodeIds :
          a # b /\ CamerasOf("object", a) # {} /\ CamerasOf("object", b) # {}

\* C3: in CreateRoomCameras a room and a direction j give at most one
\* camera, a room at most nangles cameras, and the cameras of a room are
\* labelled <room name>_<j>, no two of them alike
C3_OnePerRoomDirection ==
    \A node \in NodeIds :
        /\ Cardinality(CamerasOf("room", node)) <= NAngles(cfg.angle_sampling)
        /\ \A a, b \in CamerasOf("room", node) :
              /\ cameras[a].j < NAngles(cfg.angle_sampling)
              /\ cameras[a].name = Name(node) \o <<"_">> \o Decimal(cameras[a].j)
              /\ a # b => /\ cameras[a].j # cameras[b].j
                          /\ cameras[a].name # cameras[b].name

\* C3 witness: a room with cameras for two directions
C3_Witness ==
    \E node \in NodeIds : Cardinality(CamerasOf("room", node)) >= 2

\* C4: InterpolateCameraTrajectory on fewer than 2 cameras ends in a fatal
\* error: it appends no interpolated camera and the cameras are not written
C4_TooFewCamerasIsFatal ==
    (file.interpolated /\ file.nkeypoints < 2) =>
        /\ pc \in {"crashed", "fatal"}
        /\ ~file.written
        /\ \A idx \in 1 .. Len(cameras) : cameras[idx].kind # "trajectory"

\* the room's first three children are not Walls#, Floors#, Ceilings# in
\* that order: too few children, a child with no name, or another order
LacksTriple(node) ==
    \/ NChildren(node) < 3
    \/ \E c \in 0 .. 2 : Name(Child(node, c)) = NoName
    \/ Name(Child(node, 0))[1] # "Walls#"
    \/ Name(Child(node, 1))[1] # "Floors#"
    \/ Name(Child(node, 2))[1] # "Ceilings#"
MalformedRooms == { node \in NodeIds : IsRoomCandidate(node) /\ LacksTriple(node) }

\* C11: a room without the Walls#/Floors#/Ceilings# triple never has a room
\* camera; the step of CreateRoomCameras that takes it up leaves the cameras
\* as they are and goes on with the next node; and the function returns
\* only when it has gone through all the nodes
C11_MalformedRoomSkipped ==
    /\ [](\A node \in MalformedRooms : CamerasOf("room", node) = {})
    /\ [][(pc = "room_node" /\ loop.i \in MalformedRooms)
             => (cameras' = cameras /\ pc' = "room_node" /\ loop'.i = loop.i + 1)]_vars
    /\ [][(pc = "room_node" /\ pc' # "room_node" /\ pc' # "room_angle")
             => loop.i = NNodes]_vars

\* C11 witness: a room that comes after a malformed one has got a camera
C11_Witness ==
    \E bad \in MalformedRooms : \E node \in NodeIds :
        node > bad /\ CamerasOf("room", node) # {}

\* the mask of the room has a cell at position, of value 0.5 or more
OnFreeCell(position) ==
    position \in DOMAIN loop.mask /\ 2 * loop.mask[position] >= 1

\* the last step inserted the camera of direction loop.j - 1 of room loop.i
RoomCameraInserted ==
    /\ pc = "room_angle"
    /\ last.kind = "room" /\ last.node = loop.i /\ last.j + 1 = loop.j
    /\ last.after > last.before

\* C19: in CreateRoomCameras a camera is scored only at a position on a free
\* cell of the room's mask, best_camera is at such a position, and so is the
\* camera inserted for a direction
C19_RoomCamerasOnFreeCells ==
    /\ (pc = "room_position" /\ loop.scored) => OnFreeCell(loop.position)
    /\ (pc = "room_position" /\ ScoreGT(loop.best, ZeroScore))
          => OnFreeCell(loop.viewpoint)
    /\ RoomCameraInserted =>
          /\ ScoreEQ(cameras[last.after].value, loop.best)
          /\ OnFreeCell(loop.viewpoint)

\* C19 witness: a room camera was inserted after the last position tried
\* for it fell off the grid
C19_Witness ==
    /\ RoomCameraInserted
    /\ loop.position \notin DOMAIN loop.mask
    /\ ~loop.scored

\* C16: the file is written only from the state the one post-processing step
\* leaves, and the cameras it is given went through exactly one step: the
\* interpolation if interpolate_camera_trajectory is set, the sort otherwise;
\* no step has run while a strategy is still creating cameras
C16_OnePostProcessingStep ==
    /\ [](file.written =>
            file.post = IF cfg.interpolate_camera_trajectory
                        THEN <<"interpolate">> ELSE <<"sort">>)
    /\ [](pc \notin {"trajectory", "write", "exit", "crashed"} => file.post = <<>>)
    /\ [][file'.written /\ ~file.written =>
            pc = "write" /\ Len(file.post) = 1 /\ file'.cameras = cameras]_vars

\* C16 witness: a written file of sorted cameras, two or more
C16_Witness ==
    /\ file.written
    /\ file.post = <<"sort">>
    /\ Len(file.cameras) >= 2

---------------------------------------------------------------------------
(* Properties of ComputeViewpointMask (checked under SpecMask) *)

Masked == pc = "masked" /\ mk.out.ok

\* the squared distance of the centres of two cells is at least the square
\* of min_distance_from_obstacle, both scaled by (xres * yres)^2
AtLeastClearanceApart(a, b) ==
    LET dx == (a[1] - b[1]) * mk.geo.xlen * mk.out.yres
        dy == (a[2] - b[2]) * mk.geo.ylen * mk.out.xres
        d  == mk.clearance * mk.out.xres * mk.out.yres
    IN  dx * dx + dy * dy >= d * d

\* C6: a cell of the viewpoint mask is 1 only if it lies at least
\* min_distance_from_obstacle away from every cell an obstacle is rasterized
\* on and from every cell outside the floor, for every clearance >= 0
C6_MaskKeepsClearance ==
    Masked =>
        \A cell \in DOMAIN mk.out.mask :
            mk.out.mask[cell] = 1 =>
                \A other \in DOMAIN mk.out.mask :
                    (mk.out.obstacles[other] > 0 \/ mk.out.floor[other] = 0)
                        => AtLeastClearanceApart(cell, other)

\* C7: every cell of the viewpoint mask is 0 or 1, and it is 1 only where
\* the eroded floor mask and the eroded inverted obstacle mask are both 1
C7_MaskIsConjunction ==
    Masked =>
        \A cell \in DOMAIN mk.out.mask :
            /\ mk.out.mask[cell] \in {0, 1}
            /\ mk.out.mask[cell] = 1 =>
                  mk.out.floor_mask[cell] = 1 /\ mk.out.object_mask[cell] = 1

\* C7 witness: a mask with a cell left at 1 and a cell of the eroded floor
\* that the eroded obstacle mask has cleared
C7_Witness ==
    /\ Masked
    /\ \E cell \in DOMAIN mk.out.mask : mk.out.mask[cell] = 1
    /\ \E cell \in DOMAIN mk.out.mask :
          /\ mk.out.floor_mask[cell] = 1
          /\ mk.out.object_mask[cell] = 0
          /\ mk.out.mask[cell] = 0

\* C12: for a well-formed room ComputeViewpointMask fails exactly when the
\* grid has fewer than 3 cells along x or fewer than 3 along y, the cells
\* along an axis being the extent of the room's box along that axis divided
\* by the grid spacing
C12_RejectsBelowThreeByThree ==
    (pc = "masked" /\ ~LacksTriple(mk.room_node)) =>
        LET spacing == GridSampleSpacing(mk.clearance)
        IN  ~mk.out.ok <=> (mk.geo.xlen \div spacing < 3 \/ mk.geo.ylen \div spacing < 3)

---------------------------------------------------------------------------
(* Properties of RenderImage (checked under SpecRender) *)

\* C14: once both backends have rendered a pixel, they gave it the same
\* value, whatever the scene index of the node the pixel shows
C14_BackendsAgree ==
    (px.gl # <<>> /\ px.rc # <<>>) => px.gl = px.rc

---------------------------------------------------------------------------
(* Properties of InterpolateCameraTrajectory (checked under SpecTrajectory) *)

\* C15: the cameras the resampling leaves are at the parameters 0, step,
\* 2 step, ... up to the end parameter: the first at 0, each step after the
\* one before, none past the end, floor(end / step) + 1 of them
C15_UniformSamples ==
    pc = "resampled" =>
        LET parameters == SplineParameters(tr.seps, 0)
            end == EndParameter(parameters)
            n == Len(tr.samples)
        IN  /\ n = end \div tr.step + 1
            /\ tr.samples[1] = 0
            /\ \A i \in 1 .. n - 1 : tr.samples[i + 1] = tr.samples[i] + tr.step
            /\ tr.samples[n] <= end

\* v . w for two vectors of three components
Dot(v, w) == v[1] * w[1] + v[2] * w[2] + v[3] * w[3]

\* C17: each camera the interpolation leaves in the list has a towards
\* vector and an up vector of length 1 that are orthogonal
C17_InterpolatedOrthonormal ==
    pc = "resampled" =>
        \A i \in 1 .. Len(tr.inserted) :
            LET towards == tr.inserted[i].towards
                up == tr.inserted[i].up
            IN  /\ Dot(towards.num, towards.num) = towards.den * towards.den
                /\ Dot(up.num, up.num) = up.den * up.den
                /\ Dot(towards.num, up.num) = 0

---------------------------------------------------------------------------
(* Properties of the candidate loop (checked under SpecSelect) *)

\* the candidates of the unit that pass the two checks
Accepted ==
    { i \in 1 .. Len(sel.scores) :
        ScoreGT(sel.scores[i], ZeroScore) /\ ScoreGE(sel.scores[i], sel.min_score) }

\* C18: the camera inserted for a unit is the first of the accepted
\* candidates that has the largest value among them (none is inserted when
\* none is accepted), and best_camera changes only for a candidate of
\* strictly larger value
C18_FirstMaximumWins ==
    /\ [](pc = "inserted" =>
            IF Accepted = {} THEN sel.list = <<>>
            ELSE /\ Len(sel.list) = 1
                 /\ sel.pick \in Accepted
                 /\ ScoreEQ(sel.list[1].value, sel.scores[sel.pick])
                 /\ \A i \in Accepted :
                       /\ ScoreGE(sel.scores[sel.pick], sel.scores[i])
                       /\ ScoreEQ(sel.scores[i], sel.scores[sel.pick])
                             => i >= sel.pick)
    /\ [][sel'.pick # sel.pick => ScoreGT(sel'.best, sel.best)]_vars

\* C18 witness: two accepted candidates share the largest value and the
\* earlier one was inserted
C18_Witness ==
    /\ pc = "inserted"
    /\ sel.list # <<>>
    /\ \E i \in Accepted : i > sel.pick /\ ScoreEQ(sel.scores[i], sel.scores[sel.pick])

---------------------------------------------------------------------------
(* Properties of the counting loop of ObjectCoverageScore (under SpecRay) *)

\* C20: a point counts as visible exactly when the first surface the ray
\* crosses belongs to the target node and its distance t is within 0.01 of
\* the distance d of the point, on either side
C20_VisibleWithinTolerance ==
    pc = "counted" =>
        (ray.counted <=>
            /\ ray.hits # <<>>
            /\ ray.hits[1].node = ray.node
            /\ ray.hits[1].t - ray.d <= tolerance_t
            /\ ray.d - ray.hits[1].t <= tolerance_t)

---------------------------------------------------------------------------
(* Properties of the viewpoint of an object camera (under SpecView) *)

\* C22: the viewpoint of the camera of an object whose parent is a room or
\* floor node is at a height between floor + eye_height - eye_height_radius
\* and floor + eye_height + eye_height_radius, moved by an occluder or not
C22_ViewpointAtEyeHeight ==
    (pc = "viewed" /\ ParentIsRoomOrFloor(vp.node)) =>
        /\ (vp.floor_z + EyeHeight - eye_height_radius) * vp.z.den <= vp.z.num
        /\ vp.z.num <= (vp.floor_z + EyeHeight + eye_height_radius) * vp.z.den

---------------------------------------------------------------------------
(* Properties of main (checked under SpecMain) *)

\* C25: in each backend mode CreateAndWriteCameras runs exactly once per
\* process and the process ends by the exit after the write step: it is
\* never entered twice and never writes twice, whatever display events
\* arrive, and a process that has ended has run it once and written once
C25_PipelineRunsOnce ==
    /\ pr.runs <= 1
    /\ pr.writes <= 1
    /\ ProcessEnded => pc = "exited" /\ pr.runs = 1 /\ pr.writes = 1

---------------------------------------------------------------------------
(* Properties of the floating-point loops (checked under SpecLoops) *)

\* C26: with position_sampling > 0 and interpolation_step > 0 every run
\* reaches the write step and exits: the position loops and the resampling
\* loop advance by a positive amount on each pass towards a finite bound
C26_ReachesWriteAndExits ==
    <>(pc = "exit_written")

---------------------------------------------------------------------------
(* Properties of IsObject (checked under SpecObject) *)

\* the name of the node puts it among the walls, floors, ceilings, doors or
\* windows
NamedAsStructure ==
    /\ ob.name # NoName
    /\ \/ Len(ob.name) > 0 /\ ob.name[1] \in {"Walls#", "Floors#", "Ceilings#"}
       \/ \E p \in 1 .. Len(ob.name) : ob.name[p] \in {"Door", "Window"}

\* C23: IsObject holds of a node exactly when the node has no children and
\* its name does not start with Walls#, Floors# or Ceilings# and does not
\* contain Door or Window; a leaf with no name is an object
C23_ObjectIffPlainLeaf ==
    pc = "classified" =>
        (ob.is_object <=> (ob.nchildren = 0 /\ ~NamedAsStructure))

\* C23 witness: a leaf whose name has Window after its first token was
\* classified, and is not an object
C23_Witness ==
    /\ pc = "classified"
    /\ ob.nchildren = 0
    /\ ob.name # NoName
    /\ Len(ob.name) = 2 /\ ob.name[1] = "chair" /\ ob.name[2] = "Window"
    /\ ~ob.is_object

---------------------------------------------------------------------------
(* Properties of the scoring functions (checked under SpecScore) *)

SceneScored == pc = "scored"
ObjectScored == pc = "object_scored"

\* the nodes that qualify in the image a render of the camera gives: objects
\* whose pixel count exceeds min_visible_fraction * width * height
\* (count > npixels / 100 iff count > floor(npixels / 100), count an integer)
VisibleCounts(view) == NodePixelCounts(RenderImage(view, Root, NoNode, cfg))
QualifyingNodes(view) ==
    { i \in NodeIds : IsObject(i)
        /\ VisibleCounts(view)[i]
             > (cfg.width * cfg.height) \div MinVisibleFractionDen }

\* C13: a call of ObjectCoverageScore for the node of the call before it
\* leaves the cached points as they were; a call for another node (or the
\* first call) makes that node the cached one, and the points it scores, if
\* any, all lie on that node
C13_CacheKeyedByNode ==
    ObjectScored =>
        IF oc.before.last_node = oc.node
        THEN oc.out.cache = oc.before /\ ~oc.out.regenerated
        ELSE /\ oc.out.cache.last_node = oc.node
             /\ oc.out.cache.npoints > 0 => oc.out.cache.owner = oc.node
             /\ oc.out.cache.npoints = 0 => ScoreEQ(oc.out.score, ZeroScore)

\* C13 witness: a call that reuses the points of the call before it, after
\* an earlier call for another node
C13_Witness ==
    /\ ObjectScored
    /\ ncalls = MaxCalls
    /\ oc.before.last_node = oc.node
    /\ oc.before.npoints > 0
    /\ oc.before.filled > oc.before.npoints

\* the node has no surface area: RNIsZero(total_area)
ZeroArea(node) == TotalArea(Geometry(node).tris) + Geometry(node).other = 0

\* C24: after any calls of ObjectCoverageScore the cached points are none or
\* lie on the node recorded as last scored, the node of the last call, so
\* that no call counts points of another node, and a target without area
\* scores 0 on its first call and on every call repeated for it
C24_CachedPointsOfLastNode ==
    /\ cache.npoints = 0 \/ cache.owner = cache.last_node
    /\ ObjectScored =>
         /\ cache.last_node = oc.node
         /\ ZeroArea(oc.node) => cache.npoints = 0 /\ ScoreEQ(oc.out.score, ZeroScore)

\* C24 witness: the third call is for a target without area, again, after a
\* call for a node with points
C24_Witness ==
    /\ ObjectScored
    /\ ncalls = MaxCalls
    /\ ZeroArea(oc.node)
    /\ oc.before.last_node = oc.node
    /\ oc.before.filled > 0

\* C21: the nodes SceneCoverageScore counts are exactly the objects whose
\* pixel count exceeds min_visible_fraction * width * height, also when that
\* product is below 1 (then an object with one visible pixel is counted)
C21_CountsObjectsAboveFraction ==
    SceneScored =>
        sc.out.counted = QualifyingNodes(sc.view)

\* C5: when SceneCoverageScore is called with a room node, no node outside
\* the room's subtree is among the nodes it counts (their pixels come from an
\* image of the room's subtree only).
C5_CountsOnlyRoomSubtree ==
    SceneScored =>
        \A i \in NodeIds :
            ~InSubtree(i, sc.parent_node) =>
                /\ i \notin sc.out.counted
                /\ sc.out.early \/ sc.out.counts[i] = 0

\* C8: ObjectCoverageScore returns a value in [0, 1] (0 when there are no
\* sample points), and SceneCoverageScore returns a value >= 0.
C8_ScoreRanges ==
    /\ ObjectScored =>
          /\ ScoreGE(oc.out.score, ZeroScore)
          /\ ScoreGE(Lin(1, 1), oc.out.score)
          /\ oc.out.cache.npoints = 0 => ScoreEQ(oc.out.score, ZeroScore)
    /\ SceneScored =>
          /\ ~sc.out.trap
          /\ ScoreGE(sc.out.score, ZeroScore)

\* C9: with scene_scoring_method = 0 the score is k * p / (width * height)
\* when k > min_visible_objects and 0 otherwise, k the number of qualifying
\* nodes and p the sum of their pixel counts.
C9_MethodZeroScore ==
    (SceneScored /\ cfg.scene_scoring_method = 0) =>
        LET k == Cardinality(QualifyingNodes(sc.view))
            p == SumCounts(QualifyingNodes(sc.view), VisibleCounts(sc.view))
        IN  /\ ~sc.out.trap
            /\ IF k > cfg.min_visible_objects
               THEN /\ ~MulOverflows(k, p)
                    /\ ScoreEQ(sc.out.score, Lin(k * p, cfg.width * cfg.height))
               ELSE ScoreEQ(sc.out.score, ZeroScore)

\* C10: with scene_scoring_method = 1 the score is the sum over the qualifying
\* nodes of ln(pixel_count / threshold) on the exact ratio: every term the
\* code adds is that logarithm, and is strictly positive.
C10_MethodOneExactLog ==
    (SceneScored /\ cfg.scene_scoring_method = 1 /\ ~sc.out.early) =>
        LET threshold == (cfg.width * cfg.height) \div MinVisibleFractionDen
        IN  \A i \in sc.out.counted :
                /\ ScoreEQ(LogTerm(sc.out.counts[i], threshold),
                           Log(sc.out.counts[i], threshold))
                /\ ScoreGT(LogTerm(sc.out.counts[i], threshold), ZeroScore)

===========================================================================
